---- MODULE Spec2Model ----
(***************************************************************************)
(* Model of the resource/deadlock engine of Deadlock-Automation            *)
(* (src/deadlock_core.py): the ResourceManager ledger, the Banker's        *)
(* safety check, the graph-based deadlock detection and the resolution     *)
(* operations.  Processes are identified by their position in              *)
(* ResourceManager.processes (pid = position, 1-based); resource type i of *)
(* the code (0-based) is i+1 here.                                         *)
(***************************************************************************)
EXTENDS Integers, Sequences, FiniteSets, TLC

\* ------------------------------------------------------------------ bounds
NumProcs == 2
NumRes == 2
MaxAvail == 1
MaxAlloc == 1
MaxNeed == 1
MaxReq == 1

Procs == 1..NumProcs
Res == 1..NumRes
UnknownPid == 0
Pids == Procs \cup {UnknownPid}

Vec(lo, hi) == [Res -> lo..hi]
ZeroVec == [i \in Res |-> 0]

VARIABLES
  available_resources,   \* ResourceManager.available_resources
  max_resources,         \* Process.max_resources, per process
  allocated_resources,   \* Process.allocated_resources, per process
  needed_resources,      \* Process.needed_resources, per process
  priority,              \* Process.priority, per process
  deadlock_processes,    \* ResourceManager.deadlock_processes (cached list)
  call,                  \* the last operation called and its arguments
  ret,                   \* what that call returned
  total,                 \* available + allocations at construction
  safe0,                 \* is_safe() at construction
  system_state,          \* DeadlockResolver.system_state
  sched                  \* the Scheduler object of a simulation

vars == <<available_resources, max_resources, allocated_resources,
          needed_resources, priority, deadlock_processes, call, ret, total,
          safe0, system_state, sched>>

\* no DeadlockResolver and no Scheduler has been constructed
NoSystem == [processes |-> <<>>]
NoScheduler == [kind |-> "none"]

\* ------------------------------------------------------------ vector help
VAdd(a, b) == [i \in Res |-> a[i] + b[i]]
VSub(a, b) == [i \in Res |-> a[i] - b[i]]
\* np.any(a > b)
AnyGt(a, b) == \E i \in Res : a[i] > b[i]
\* np.all(a <= b)
AllLe(a, b) == \A i \in Res : a[i] <= b[i]

RECURSIVE VSum(_, _)
VSum(v, n) == IF n = 0 THEN 0 ELSE v[n] + VSum(v, n - 1)
\* np.sum(x.allocated_resources)
NpSum(v) == VSum(v, NumRes)

RECURSIVE SumAlloc(_, _, _)
SumAlloc(al, i, n) == IF n = 0 THEN 0 ELSE al[n][i] + SumAlloc(al, i, n - 1)
\* available[i] + sum over the processes of allocated[i]
Holdings(av, al) == [i \in Res |-> av[i] + SumAlloc(al, i, NumProcs)]

\* next((p for p in self.processes if p.pid == pid), None)
FindProcess(pid) == IF pid \in Procs THEN pid ELSE UnknownPid

\* ---------------------------------------------------------------- is_safe
\* One pass of the for loop: st = [work, finish, found], scanning process i.
RECURSIVE SafePass(_, _, _, _)
SafePass(al, nd, st, i) ==
  IF i > NumProcs THEN st
  ELSE IF ~st.finish[i] /\ AllLe(nd[i], st.work)
       THEN SafePass(al, nd,
                     [work |-> VAdd(st.work, al[i]),
                      finish |-> [st.finish EXCEPT ![i] = TRUE],
                      found |-> TRUE], i + 1)
       ELSE SafePass(al, nd, st, i + 1)

\* is_safe() with the scan run once instead of until nothing new finishes
SafeLoop_OnePass(al, nd, st) == SafePass(al, nd, [st EXCEPT !.found = FALSE], 1)

\* while found: found = False; for ...
RECURSIVE SafeLoop(_, _, _)
SafeLoop(al, nd, st) ==
  IF ~st.found THEN st
  ELSE SafeLoop(al, nd, SafePass(al, nd, [st EXCEPT !.found = FALSE], 1))

IsSafe(av, al, nd) ==
  LET st == SafeLoop(al, nd, [work |-> av,
                              finish |-> [p \in Procs |-> FALSE],
                              found |-> TRUE])
  IN \A p \in Procs : st.finish[p]

\* -------------------------------------------------------- detect_deadlock
PNode(p) == <<"P", p>>
RNode(i) == <<"R", i>>
NoNode == <<"none", 0>>
Nodes == {PNode(p) : p \in Procs} \cup {RNode(i) : i \in Res}

\* f"R{i}" in graph: some process has a positive allocation of resource i
InGraph(al, i) == \E p \in Procs : al[p][i] > 0

\* Successors of a node in the order add_edge inserted them: allocation
\* edges R{i} -> P{pid} in process order, request edges P{pid} -> R{i} in
\* resource order.
RECURSIVE AllocEdges(_, _, _)
AllocEdges(al, i, p) ==
  IF p > NumProcs THEN <<>>
  ELSE (IF al[p][i] > 0 THEN <<PNode(p)>> ELSE <<>>) \o AllocEdges(al, i, p + 1)

\* request edges drawn for every positive need, covered or not
RECURSIVE RequestEdges_AnyNeed(_, _, _, _, _)
RequestEdges_AnyNeed(av, al, nd, p, i) ==
  IF i > NumRes THEN <<>>
  ELSE (IF nd[p][i] > 0 /\ InGraph(al, i)
        THEN <<RNode(i)>> ELSE <<>>) \o RequestEdges_AnyNeed(av, al, nd, p, i + 1)

RECURSIVE RequestEdges(_, _, _, _, _)
RequestEdges(av, al, nd, p, i) ==
  IF i > NumRes THEN <<>>
  ELSE (IF nd[p][i] > 0 /\ av[i] < nd[p][i] /\ InGraph(al, i)
        THEN <<RNode(i)>> ELSE <<>>) \o RequestEdges(av, al, nd, p, i + 1)

Adj(av, al, nd) ==
  [n \in Nodes |-> IF n[1] = "P" THEN RequestEdges(av, al, nd, n[2], 1)
                   ELSE AllocEdges(al, n[2], 1)]

\* Nodes in insertion order: P{pid}, then the resources it holds that are
\* not yet in the graph.
RECURSIVE NewResNodes(_, _, _, _)
NewResNodes(al, p, i, sofar) ==
  IF i > NumRes THEN <<>>
  ELSE IF al[p][i] > 0 /\ RNode(i) \notin sofar
       THEN <<RNode(i)>> \o NewResNodes(al, p, i + 1, sofar \cup {RNode(i)})
       ELSE NewResNodes(al, p, i + 1, sofar)

SeqRange(s) == {s[k] : k \in 1..Len(s)}

RECURSIVE NodeOrder(_, _, _)
NodeOrder(al, p, sofar) ==
  IF p > NumProcs THEN <<>>
  ELSE LET new == <<PNode(p)>> \o NewResNodes(al, p, 1, sofar)
       IN new \o NodeOrder(al, p + 1, sofar \cup SeqRange(new))

\* find_cycle: the backtracking loop that pops the active path until the
\* edge on top ends in the tail of the edge being added.
RECURSIVE PopBack(_, _, _)
PopBack(edges, active, tail) ==
  IF edges = <<>> THEN [edges |-> <<>>, active |-> {tail}]
  ELSE LET rest == SubSeq(edges, 1, Len(edges) - 1)
           act == active \ {edges[Len(edges)][2]}
       IN IF rest # <<>> /\ rest[Len(rest)][2] = tail
          THEN [edges |-> rest, active |-> act]
          ELSE PopBack(rest, act, tail)

\* edge_dfs from one start node, consumed by the loop body of find_cycle.
\* st = [stack, pos, vedges, edges, active, seen, prev]
RECURSIVE CycleDfs(_, _, _)
CycleDfs(adj, explored, st) ==
  IF st.stack = <<>> THEN [found |-> FALSE, seen |-> st.seen]
  ELSE
    LET cur == st.stack[Len(st.stack)]
        k == st.pos[cur]
    IN IF k > Len(adj[cur])
       THEN CycleDfs(adj, explored,
                     [st EXCEPT !.stack = SubSeq(st.stack, 1, Len(st.stack) - 1)])
       ELSE
         LET head == adj[cur][k]
             edge == <<cur, head>>
             st1 == [st EXCEPT !.pos[cur] = k + 1]
         IN IF edge \in st.vedges THEN CycleDfs(adj, explored, st1)
            ELSE
              LET st2 == [st1 EXCEPT !.vedges = @ \cup {edge},
                                     !.stack = Append(@, head)]
              IN IF head \in explored THEN CycleDfs(adj, explored, st2)
                 ELSE
                   LET pb == IF st2.prev # NoNode /\ cur # st2.prev
                             THEN PopBack(st2.edges, st2.active, cur)
                             ELSE [edges |-> st2.edges, active |-> st2.active]
                       es == Append(pb.edges, edge)
                   IN IF head \in pb.active
                      THEN [found |-> TRUE, cycle |-> es, final |-> head]
                      ELSE CycleDfs(adj, explored,
                                    [st2 EXCEPT !.edges = es,
                                                !.active = pb.active \cup {head},
                                                !.seen = @ \cup {head},
                                                !.prev = head])

\* cycle[i:] for the first i whose edge starts at final_node (the last
\* index when there is none)
RECURSIVE TrimCycle(_, _, _)
TrimCycle(cycle, final, i) ==
  IF i >= Len(cycle) \/ cycle[i][1] = final
  THEN SubSeq(cycle, i, Len(cycle))
  ELSE TrimCycle(cycle, final, i + 1)

\* nx.find_cycle(graph): the list of edges of the first cycle that the
\* depth-first search meets, <<>> for NetworkXNoCycle.
RECURSIVE FindCycleFrom(_, _, _, _)
FindCycleFrom(adj, order, k, explored) ==
  IF k > Len(order) THEN <<>>
  ELSE IF order[k] \in explored THEN FindCycleFrom(adj, order, k + 1, explored)
  ELSE
    LET r == CycleDfs(adj, explored,
                      [stack |-> <<order[k]>>,
                       pos |-> [n \in DOMAIN adj |-> 1],
                       vedges |-> {},
                       edges |-> <<>>,
                       active |-> {order[k]},
                       seen |-> {order[k]},
                       prev |-> NoNode])
    IN IF r.found THEN TrimCycle(r.cycle, r.final, 1)
       ELSE FindCycleFrom(adj, order, k + 1, explored \cup r.seen)

FindCycle(av, al, nd) ==
  FindCycleFrom(Adj(av, al, nd), NodeOrder(al, 1, {}), 1, {})

\* [p for p in self.processes if f"P{p.pid}" in {u for u,v in cycle}]
RECURSIVE ProcsOnCycle(_, _)
ProcsOnCycle(cycle, p) ==
  IF p > NumProcs THEN <<>>
  ELSE (IF \E k \in 1..Len(cycle) : cycle[k][1] = PNode(p)
        THEN <<p>> ELSE <<>>) \o ProcsOnCycle(cycle, p + 1)

DetectDeadlock(av, al, nd) == ProcsOnCycle(FindCycle(av, al, nd), 1)

\* ------------------------------------------------------------- sorting
\* sorted(seq, key=...): stable insertion by ascending key
RECURSIVE InsertByKey(_, _, _)
InsertByKey(s, x, key) ==
  IF s = <<>> THEN <<x>>
  ELSE IF key[x] < key[Head(s)] THEN <<x>> \o s
       ELSE <<Head(s)>> \o InsertByKey(Tail(s), x, key)

RECURSIVE SortedAsc(_, _)
SortedAsc(s, key) ==
  IF s = <<>> THEN <<>>
  ELSE InsertByKey(SortedAsc(SubSeq(s, 1, Len(s) - 1), key), s[Len(s)], key)

\* the sort without reverse=True: lightest first
SortedDesc_Ascending(s, key) == SortedAsc(s, key)

\* sorted(seq, key=..., reverse=True): descending, equal keys keep their order
SortedDesc(s, key) == SortedAsc(s, [x \in DOMAIN key |-> 0 - key[x]])

\* --------------------------------------------------------- the operations
\* A ledger value L = [av, al, nd, dl]: available, allocated, needed and the
\* cached deadlock list; max and priority never change.
Ledger == [av |-> available_resources, al |-> allocated_resources,
           nd |-> needed_resources, dl |-> deadlock_processes]

\* detect_deadlock(): stores the list in self.deadlock_processes
RunDetect(L) == [L EXCEPT !.dl = DetectDeadlock(L.av, L.al, L.nd)]

\* request_resources whose rollback leaves needed_resources reduced
RequestResources_PartialRollback(L, pid, request) ==
  LET p == FindProcess(pid)
  IN IF p = UnknownPid THEN [L |-> L, ret |-> FALSE]
     ELSE IF AnyGt(request, L.nd[p]) \/ AnyGt(request, L.av)
          THEN [L |-> L, ret |-> FALSE]
          ELSE
            LET T == [L EXCEPT !.av = VSub(@, request),
                               !.al[p] = VAdd(@, request),
                               !.nd[p] = VSub(@, request)]
            IN IF IsSafe(T.av, T.al, T.nd)
               THEN [L |-> T, ret |-> TRUE]
               ELSE [L |-> [T EXCEPT !.av = VAdd(@, request),
                                     !.al[p] = VSub(@, request)],
                     ret |-> FALSE]

\* request_resources that compares the request with available only
RequestResources_NoNeedCheck(L, pid, request) ==
  LET p == FindProcess(pid)
  IN IF p = UnknownPid THEN [L |-> L, ret |-> FALSE]
     ELSE IF AnyGt(request, L.av)
          THEN [L |-> L, ret |-> FALSE]
          ELSE
            LET T == [L EXCEPT !.av = VSub(@, request),
                               !.al[p] = VAdd(@, request),
                               !.nd[p] = VSub(@, request)]
            IN IF IsSafe(T.av, T.al, T.nd)
               THEN [L |-> T, ret |-> TRUE]
               ELSE [L |-> L, ret |-> FALSE]

\* request_resources that grants every valid request without is_safe()
RequestResources_NoSafety(L, pid, request) ==
  LET p == FindProcess(pid)
  IN IF p = UnknownPid THEN [L |-> L, ret |-> FALSE]
     ELSE IF AnyGt(request, L.nd[p]) \/ AnyGt(request, L.av)
          THEN [L |-> L, ret |-> FALSE]
          ELSE [L |-> [L EXCEPT !.av = VSub(@, request),
                                !.al[p] = VAdd(@, request),
                                !.nd[p] = VSub(@, request)],
                ret |-> TRUE]

\* request_resources(pid, request) -> [L, ret]
RequestResources(L, pid, request) ==
  LET p == FindProcess(pid)
  IN IF p = UnknownPid THEN [L |-> L, ret |-> FALSE]
     ELSE IF AnyGt(request, L.nd[p]) \/ AnyGt(request, L.av)
          THEN [L |-> L, ret |-> FALSE]
          ELSE
            LET T == [L EXCEPT !.av = VSub(@, request),
                               !.al[p] = VAdd(@, request),
                               !.nd[p] = VSub(@, request)]
            IN IF IsSafe(T.av, T.al, T.nd)
               THEN [L |-> T, ret |-> TRUE]
               ELSE [L |-> [T EXCEPT !.av = VAdd(@, request),
                                     !.al[p] = VSub(@, request),
                                     !.nd[p] = VAdd(@, request)],
                     ret |-> FALSE]

\* release_resources that leaves the released amount allocated
ReleaseResources_KeepAllocated(L, pid, resources) ==
  LET p == FindProcess(pid)
  IN IF p = UnknownPid THEN [L |-> L, ret |-> FALSE]
     ELSE IF AnyGt(resources, L.al[p]) THEN [L |-> L, ret |-> FALSE]
          ELSE [L |-> [L EXCEPT !.av = VAdd(@, resources),
                                !.nd[p] = VAdd(@, resources)],
                ret |-> TRUE]

\* release_resources that does not add the released amount to the need
ReleaseResources_NoNeed(L, pid, resources) ==
  LET p == FindProcess(pid)
  IN IF p = UnknownPid THEN [L |-> L, ret |-> FALSE]
     ELSE IF AnyGt(resources, L.al[p]) THEN [L |-> L, ret |-> FALSE]
          ELSE [L |-> [L EXCEPT !.av = VAdd(@, resources),
                                !.al[p] = VSub(@, resources)],
                ret |-> TRUE]

\* release_resources that gives back the whole allocation of the process
ReleaseResources_WholeAllocation(L, pid, resources) ==
  LET p == FindProcess(pid)
  IN IF p = UnknownPid THEN [L |-> L, ret |-> FALSE]
     ELSE IF AnyGt(resources, L.al[p]) THEN [L |-> L, ret |-> FALSE]
          ELSE [L |-> [L EXCEPT !.av = VAdd(@, L.al[p]),
                                !.al[p] = ZeroVec,
                                !.nd[p] = VAdd(@, L.al[p])],
                ret |-> TRUE]

\* release_resources(pid, resources) -> [L, ret]
ReleaseResources(L, pid, resources) ==
  LET p == FindProcess(pid)
  IN IF p = UnknownPid THEN [L |-> L, ret |-> FALSE]
     ELSE IF AnyGt(resources, L.al[p]) THEN [L |-> L, ret |-> FALSE]
          ELSE [L |-> [L EXCEPT !.av = VAdd(@, resources),
                                !.al[p] = VSub(@, resources),
                                !.nd[p] = VAdd(@, resources)],
                ret |-> TRUE]

\* the preemption loop that forgets to add the amount back to the need
RECURSIVE PreemptLoop_NoNeed(_, _, _, _)
PreemptLoop_NoNeed(L, list, k, preempted) ==
  IF k > Len(list) THEN [L |-> L, ret |-> preempted]
  ELSE LET p == list[k]
       IN IF \E i \in Res : L.al[p][i] > 0
          THEN PreemptLoop_NoNeed([L EXCEPT !.av = VAdd(@, L.al[p]),
                                            !.al[p] = ZeroVec],
                                  list, k + 1, Append(preempted, p))
          ELSE PreemptLoop_NoNeed(L, list, k + 1, preempted)

\* resolve_deadlock_by_preemption(): the for loop over the detected list
RECURSIVE PreemptLoop(_, _, _, _)
PreemptLoop(L, list, k, preempted) ==
  IF k > Len(list) THEN [L |-> L, ret |-> preempted]
  ELSE LET p == list[k]
       IN IF \E i \in Res : L.al[p][i] > 0
          THEN PreemptLoop([L EXCEPT !.av = VAdd(@, L.al[p]),
                                     !.nd[p] = VAdd(@, L.al[p]),
                                     !.al[p] = ZeroVec],
                           list, k + 1, Append(preempted, p))
          ELSE PreemptLoop(L, list, k + 1, preempted)

ResolveDeadlockByPreemption(L) ==
  LET D == RunDetect(L)
  IN IF D.dl = <<>> THEN [L |-> D, ret |-> <<>>]
     ELSE PreemptLoop(D, D.dl, 1, <<>>)

\* resolve_deadlock_by_termination(): the for loop over the sorted list
RECURSIVE TerminateLoop(_, _, _, _, _)
TerminateLoop(L, mx, list, k, terminated) ==
  IF k > Len(list) THEN [L |-> L, ret |-> terminated]
  ELSE LET p == list[k]
           T == RunDetect([L EXCEPT !.av = VAdd(@, L.al[p]),
                                    !.al[p] = ZeroVec,
                                    !.nd[p] = mx[p]])
       IN IF T.dl = <<>> THEN [L |-> T, ret |-> Append(terminated, p)]
          ELSE TerminateLoop(T, mx, list, k + 1, Append(terminated, p))

\* resolve_deadlock_by_termination that trusts the cached list and never
\* runs the detection itself
ResolveDeadlockByTermination_NoDetect(L, mx) ==
  LET key == [p \in Procs |-> NpSum(L.al[p])]
  IN TerminateLoop(L, mx, SortedDesc(L.dl, key), 1, <<>>)

ResolveDeadlockByTermination(L, mx) ==
  LET D == IF L.dl = <<>> THEN RunDetect(L) ELSE L
      key == [p \in Procs |-> NpSum(D.al[p])]
  IN TerminateLoop(D, mx, SortedDesc(D.dl, key), 1, <<>>)

\* the resource preemption loop that does not add the taken units to the need
RECURSIVE ResourcePreemptLoop_KeepNeed(_, _, _, _)
ResourcePreemptLoop_KeepNeed(L, list, k, preempted) ==
  IF k > Len(list) THEN [L |-> L, ret |-> preempted]
  ELSE LET p == list[k]
           resources_needed == [i \in Res |-> IF L.al[p][i] < 1 THEN L.al[p][i] ELSE 1]
           T == RunDetect([L EXCEPT !.av = VAdd(@, resources_needed),
                                    !.al[p] = VSub(@, resources_needed)])
           out == Append(preempted, <<p, resources_needed>>)
       IN IF T.dl = <<>> THEN [L |-> T, ret |-> out]
          ELSE ResourcePreemptLoop_KeepNeed(T, list, k + 1, out)

\* resolve_deadlock_by_resource_preemption(): ret is the dict pid -> taken,
\* kept as the sequence of <<pid, taken>> in insertion order
RECURSIVE ResourcePreemptLoop(_, _, _, _)
ResourcePreemptLoop(L, list, k, preempted) ==
  IF k > Len(list) THEN [L |-> L, ret |-> preempted]
  ELSE LET p == list[k]
           resources_needed == [i \in Res |-> IF L.al[p][i] < 1 THEN L.al[p][i] ELSE 1]
           T == RunDetect([L EXCEPT !.av = VAdd(@, resources_needed),
                                    !.al[p] = VSub(@, resources_needed),
                                    !.nd[p] = VAdd(@, resources_needed)])
           out == Append(preempted, <<p, resources_needed>>)
       IN IF T.dl = <<>> THEN [L |-> T, ret |-> out]
          ELSE ResourcePreemptLoop(T, list, k + 1, out)

\* resolve_deadlock_by_resource_preemption that visits the list unsorted
ResolveDeadlockByResourcePreemption_Unsorted(L, prio) ==
  LET D == IF L.dl = <<>> THEN RunDetect(L) ELSE L
  IN ResourcePreemptLoop(D, D.dl, 1, <<>>)

ResolveDeadlockByResourcePreemption(L, prio) ==
  LET D == IF L.dl = <<>> THEN RunDetect(L) ELSE L
  IN ResourcePreemptLoop(D, SortedAsc(D.dl, prio), 1, <<>>)

\* ------------------------------------------------------------ the machine
Commit(r) ==
  /\ available_resources' = r.L.av
  /\ allocated_resources' = r.L.al
  /\ needed_resources' = r.L.nd
  /\ deadlock_processes' = r.L.dl
  /\ ret' = r.ret
  /\ UNCHANGED <<max_resources, priority, total, safe0, system_state, sched>>

\* Process(pid, max, allocated, needed) for every process and
\* ResourceManager(available, processes)
Init ==
  /\ available_resources \in Vec(0, MaxAvail)
  /\ allocated_resources \in [Procs -> Vec(0, MaxAlloc)]
  /\ needed_resources \in [Procs -> Vec(0, MaxNeed)]
  /\ max_resources \in {allocated_resources,
                        [p \in Procs |-> VAdd(allocated_resources[p], needed_resources[p])]}
  /\ priority = [p \in Procs |-> 0]
  /\ deadlock_processes = <<>>
  /\ call = [op |-> "init", pid |-> UnknownPid, vec |-> ZeroVec]
  /\ ret = FALSE
  /\ total = Holdings(available_resources, allocated_resources)
  /\ safe0 = IsSafe(available_resources, allocated_resources, needed_resources)
  /\ system_state = NoSystem
  /\ sched = NoScheduler

Request(pid, request) ==
  /\ call' = [op |-> "request", pid |-> pid, vec |-> request]
  /\ Commit(RequestResources(Ledger, pid, request))

Release(pid, resources) ==
  /\ call' = [op |-> "release", pid |-> pid, vec |-> resources]
  /\ Commit(ReleaseResources(Ledger, pid, resources))

Detect ==
  /\ call' = [op |-> "detect", pid |-> UnknownPid, vec |-> ZeroVec]
  /\ LET D == RunDetect(Ledger) IN Commit([L |-> D, ret |-> D.dl])

Preemption ==
  /\ call' = [op |-> "preemption", pid |-> UnknownPid, vec |-> ZeroVec]
  /\ Commit(ResolveDeadlockByPreemption(Ledger))

Termination ==
  /\ call' = [op |-> "termination", pid |-> UnknownPid, vec |-> ZeroVec]
  /\ Commit(ResolveDeadlockByTermination(Ledger, max_resources))

ResourcePreemption ==
  /\ call' = [op |-> "resource_preemption", pid |-> UnknownPid, vec |-> ZeroVec]
  /\ Commit(ResolveDeadlockByResourcePreemption(Ledger, priority))

\* request/release vectors that ask for a single resource type
SingleVecs == {[i \in Res |-> IF i = j THEN n ELSE 0] : j \in Res, n \in 1..MaxReq}

Next ==
  \/ \E pid \in Procs, request \in SingleVecs : Request(pid, request)
  \/ \E pid \in Procs, resources \in SingleVecs : Release(pid, resources)
  \/ Detect
  \/ Preemption
  \/ Termination
  \/ ResourcePreemption

Spec == Init /\ [][Next]_vars

\* The ledger under request_resources and release_resources alone, called
\* with every pid (known or not) and every vector up to MaxReq.
NextLedger ==
  \/ \E pid \in Pids, request \in Vec(0, MaxReq) : Request(pid, request)
  \/ \E pid \in Pids, resources \in Vec(0, MaxReq) : Release(pid, resources)

SpecLedger == Init /\ [][NextLedger]_vars


\* ---------------------------------------------------------------------------
\* request_resources and release_resources called with signed vectors: the
\* numpy comparisons request > needed, request > available and
\* resources > allocated are the only argument tests of the two methods.
\* Entries are kept within MaxDebt of zero and of the largest allocation so
\* that the counters stay bounded; the vectors name one resource type.
MaxDebt == 1
EntryRange == (0 - MaxDebt)..(MaxAlloc + MaxDebt)
Bounded ==
  /\ \A i \in Res : available_resources[i] \in EntryRange
  /\ \A p \in Procs, i \in Res :
       /\ allocated_resources[p][i] \in EntryRange
       /\ needed_resources[p][i] \in EntryRange

SignedVecs ==
  {[i \in Res |-> IF i = j THEN n ELSE 0] : j \in Res, n \in (0 - MaxReq)..MaxReq}

NextSigned ==
  \/ \E pid \in Procs, request \in SignedVecs : Request(pid, request) /\ Bounded'
  \/ \E pid \in Procs, resources \in SignedVecs : Release(pid, resources) /\ Bounded'
  \/ Detect
  \/ Preemption /\ Bounded'
  \/ Termination /\ Bounded'
  \/ ResourcePreemption /\ Bounded'

\* a ledger whose processes hold nothing yet: max = needed
InitSigned ==
  /\ available_resources \in Vec(0, MaxAvail)
  /\ allocated_resources = [p \in Procs |-> ZeroVec]
  /\ needed_resources \in [Procs -> Vec(0, MaxNeed)]
  /\ max_resources = needed_resources
  /\ priority = [p \in Procs |-> 0]
  /\ deadlock_processes = <<>>
  /\ call = [op |-> "init", pid |-> UnknownPid, vec |-> ZeroVec]
  /\ ret = FALSE
  /\ total = Holdings(available_resources, allocated_resources)
  /\ safe0 = IsSafe(available_resources, allocated_resources, needed_resources)
  /\ system_state = NoSystem
  /\ sched = NoScheduler

SpecSigned == InitSigned /\ [][NextSigned]_vars
\* ---------------------------------------------------------------------------
\* Ledgers whose processes were given a priority by the caller
\* (process.priority is a public attribute, 0 by default).
MaxPriority == 2
InitPriority ==
  /\ available_resources \in Vec(0, MaxAvail)
  /\ allocated_resources \in [Procs -> Vec(0, MaxAlloc)]
  /\ needed_resources \in [Procs -> Vec(0, MaxNeed)]
  /\ max_resources = [p \in Procs |-> VAdd(allocated_resources[p], needed_resources[p])]
  /\ priority \in [Procs -> 0..MaxPriority]
  /\ deadlock_processes = <<>>
  /\ call = [op |-> "init", pid |-> UnknownPid, vec |-> ZeroVec]
  /\ ret = FALSE
  /\ total = Holdings(available_resources, allocated_resources)
  /\ safe0 = IsSafe(available_resources, allocated_resources, needed_resources)
  /\ system_state = NoSystem
  /\ sched = NoScheduler

NextPriority ==
  \/ \E pid \in Procs, resources \in SingleVecs : Release(pid, resources)
  \/ Detect
  \/ ResourcePreemption

SpecPriority == InitPriority /\ [][NextPriority]_vars

\* create_deadlock_scenario: the circular waits (scenarios 1, 2 and 3).  The
\* first N processes form the ring, process p holding h units of resource p
\* and needing n units of the next resource; nothing is available.
RingSizes == 2..(IF NumProcs < NumRes THEN NumProcs ELSE NumRes)
RingAlloc(N, h) ==
  [p \in Procs |-> [i \in Res |-> IF p <= N /\ i = p THEN h ELSE 0]]
RingNeed(N, n) ==
  [p \in Procs |-> [i \in Res |-> IF p <= N /\ i = (p % N) + 1 THEN n ELSE 0]]

InitRing ==
  /\ available_resources = ZeroVec
  /\ \E N \in RingSizes, h \in 1..MaxAlloc, n \in 1..MaxNeed :
       /\ allocated_resources = RingAlloc(N, h)
       /\ needed_resources = RingNeed(N, n)
  /\ max_resources \in {allocated_resources,
                        [p \in Procs |-> VAdd(allocated_resources[p], needed_resources[p])]}
  /\ priority = [p \in Procs |-> 0]
  /\ deadlock_processes = <<>>
  /\ call = [op |-> "init", pid |-> UnknownPid, vec |-> ZeroVec]
  /\ ret = FALSE
  /\ total = Holdings(available_resources, allocated_resources)
  /\ safe0 = IsSafe(available_resources, allocated_resources, needed_resources)
  /\ system_state = NoSystem
  /\ sched = NoScheduler

\* The engine started on a circular-wait scenario.
SpecRing == InitRing /\ [][Next]_vars

\* ---------------------------------------------------------------------------
\* DeadlockResolver (src/deadlock_resolution.py) over a SystemState S:
\*   S.processes           the list of process objects [id, priority, state]
\*   S.available_resources one count per resource type
\*   S.allocation_matrix, S.request_matrix, S.max_matrix   one row per id
\* The deadlock_processes argument is a list of process objects, kept as the
\* list of their positions in S.processes.  Ids are a permutation of the
\* positions, so that every row a method indexes exists.
IdAssignments == {f \in [Procs -> Procs] : \A a, b \in Procs : a # b => f[a] # f[b]}
RECURSIVE ListsOver(_)
ListsOver(S) ==
  {<<>>} \cup UNION {{<<x>> \o l : l \in ListsOver(S \ {x})} : x \in S}
ProcessLists == ListsOver(Procs)

\* list.remove(x): drops the first occurrence
RECURSIVE RemoveFirst(_, _)
RemoveFirst(s, x) ==
  IF s = <<>> THEN <<>>
  ELSE IF Head(s) = x THEN Tail(s)
       ELSE <<Head(s)>> \o RemoveFirst(Tail(s), x)

\* cost = sum(self.system_state.allocation_matrix[process.id])
Cost(S, k) == NpSum(S.allocation_matrix[S.processes[k].id])

\* the victim search of resource_preemption: the first process of the
\* remaining list whose cost is strictly below every earlier one (best = 0
\* stands for victim_process = None, min_cost = inf)
RECURSIVE MinCostVictim(_, _, _, _)
MinCostVictim(S, remaining, j, best) ==
  IF j > Len(remaining) THEN best
  ELSE IF best = 0 \/ Cost(S, remaining[j]) < Cost(S, best)
       THEN MinCostVictim(S, remaining, j + 1, remaining[j])
       ELSE MinCostVictim(S, remaining, j + 1, best)

\* resource_preemption(deadlock_processes): while remaining_deadlocked.
\* A step's 'resources' (the (i, count) pairs with count > 0) is kept as the
\* preempted row.
RECURSIVE PreemptVictims(_, _, _)
PreemptVictims(S, remaining, steps) ==
  IF remaining = <<>>
  THEN [S |-> S, ret |-> [type |-> "resource_preemption", steps |-> steps]]
  ELSE LET v == MinCostVictim(S, remaining, 1, 0)
           id == S.processes[v].id
           row == S.allocation_matrix[id]
       IN PreemptVictims([S EXCEPT !.available_resources = VAdd(@, row),
                                   !.allocation_matrix[id] = ZeroVec,
                                   !.processes[v].state = "terminated"],
                         RemoveFirst(remaining, v),
                         Append(steps, [action |-> "preempt", process |-> id,
                                        resources |-> row]))

ResolverResourcePreemption(S, deadlock_procs) == PreemptVictims(S, deadlock_procs, <<>>)

\* _check_deadlock_resolved(remaining_processes): one for loop of the scan
RECURSIVE CheckPass(_, _, _, _)
CheckPass(S, remaining, st, i) ==
  IF i > Len(remaining) THEN st
  ELSE LET id == S.processes[remaining[i]].id
       IN IF ~st.finish[i] /\ AllLe(S.request_matrix[id], st.work)
          THEN CheckPass(S, remaining,
                         [work |-> VAdd(st.work, S.allocation_matrix[id]),
                          finish |-> [st.finish EXCEPT ![i] = TRUE],
                          found |-> TRUE], i + 1)
          ELSE CheckPass(S, remaining, st, i + 1)

\* while True: ... if not found: break
RECURSIVE CheckLoop(_, _, _)
CheckLoop(S, remaining, st) ==
  LET t == CheckPass(S, remaining, [st EXCEPT !.found = FALSE], 1)
  IN IF t.found THEN CheckLoop(S, remaining, t) ELSE t

CheckDeadlockResolved(S, remaining) ==
  LET t == CheckLoop(S, remaining,
                     [work |-> S.available_resources,
                      finish |-> [i \in 1..Len(remaining) |-> FALSE],
                      found |-> FALSE])
  IN \A i \in 1..Len(remaining) : t.finish[i]

\* process_termination(deadlock_processes): the for loop over sorted_processes
RECURSIVE TerminateSorted(_, _, _, _, _)
TerminateSorted(S, sorted, k, remaining, steps) ==
  IF k > Len(sorted)
  THEN [S |-> S, ret |-> [type |-> "process_termination", steps |-> steps]]
  ELSE LET p == sorted[k]
           id == S.processes[p].id
           row == S.allocation_matrix[id]
           T == [S EXCEPT !.available_resources = VAdd(@, row),
                          !.allocation_matrix[id] = ZeroVec,
                          !.processes[p].state = "terminated"]
           rem == RemoveFirst(remaining, p)
           out == Append(steps, [action |-> "terminate", process |-> id,
                                 released_resources |-> row])
       IN IF CheckDeadlockResolved(T, rem)
          THEN [S |-> T, ret |-> [type |-> "process_termination", steps |-> out]]
          ELSE TerminateSorted(T, sorted, k + 1, rem, out)

\* process_termination that terminates in the order of the list it was given
ResolverProcessTermination_Unsorted(S, deadlock_procs) ==
  TerminateSorted(S, deadlock_procs, 1, deadlock_procs, <<>>)

ResolverProcessTermination(S, deadlock_procs) ==
  LET key == [k \in DOMAIN S.processes |-> S.processes[k].priority]
  IN TerminateSorted(S, SortedAsc(deadlock_procs, key), 1, deadlock_procs, <<>>)

\* the total taken to be what is available, allocations left out
TotalResources_AvailableOnly(S, n) == S.available_resources

\* banker_resolution: total_resources = available + the allocation of the
\* first n processes
RECURSIVE TotalResources(_, _)
TotalResources(S, n) ==
  IF n = 0 THEN S.available_resources
  ELSE VAdd(TotalResources(S, n - 1), S.allocation_matrix[S.processes[n].id])

\* banker_resolution that sets available to the total but keeps the
\* allocations
BankerReset_KeepAllocation(S) ==
  [S EXCEPT !.available_resources = TotalResources(S, Len(S.processes))]

\* available = total_resources.copy(); allocation_matrix[process.id][i] = 0
BankerReset(S) ==
  [S EXCEPT !.available_resources = TotalResources(S, Len(S.processes)),
            !.allocation_matrix =
               [id \in DOMAIN @ |->
                  IF \E k \in DOMAIN S.processes : S.processes[k].id = id
                  THEN ZeroVec ELSE @[id]]]

\* one for loop of the safe-sequence scan; rows are indexed by the position i
RECURSIVE BankerPass(_, _, _)
BankerPass(S, st, i) ==
  IF i > Len(S.processes) THEN st
  ELSE LET need == VSub(S.max_matrix[i], S.allocation_matrix[i])
       IN IF ~st.finish[i] /\ AllLe(need, st.work)
          THEN BankerPass(S,
                 [work |-> VAdd(st.work, S.allocation_matrix[i]),
                  finish |-> [st.finish EXCEPT ![i] = TRUE],
                  safe_sequence |-> Append(st.safe_sequence, S.processes[i].id),
                  steps |-> Append(st.steps,
                                   [action |-> "allocate_and_complete",
                                    process |-> S.processes[i].id,
                                    resources_needed |-> need,
                                    resources_released |-> S.allocation_matrix[i]]),
                  found |-> TRUE], i + 1)
          ELSE BankerPass(S, st, i + 1)

RECURSIVE BankerLoop(_, _)
BankerLoop(S, st) ==
  LET t == BankerPass(S, [st EXCEPT !.found = FALSE], 1)
  IN IF t.found THEN BankerLoop(S, t) ELSE t

BankerResolution(S, deadlock_procs) ==
  LET R == BankerReset(S)
      t == BankerLoop(R, [work |-> R.available_resources,
                          finish |-> [i \in 1..Len(R.processes) |-> FALSE],
                          safe_sequence |-> <<>>,
                          steps |-> <<>>,
                          found |-> FALSE])
  IN IF \A i \in 1..Len(R.processes) : t.finish[i]
     THEN [S |-> R, ret |-> [type |-> "banker_resolution", success |-> TRUE,
                             safe_sequence |-> t.safe_sequence,
                             steps |-> t.steps]]
     ELSE [S |-> R, ret |-> [type |-> "banker_resolution", success |-> FALSE]]

\* resolve_deadlock(strategy, deadlock_processes); ret "ValueError" stands
\* for the raise
ResolveDeadlock(S, strategy, deadlock_procs) ==
  IF strategy = "resource_preemption" THEN ResolverResourcePreemption(S, deadlock_procs)
  ELSE IF strategy = "process_termination" THEN ResolverProcessTermination(S, deadlock_procs)
  ELSE IF strategy = "banker" THEN BankerResolution(S, deadlock_procs)
  ELSE [S |-> S, ret |-> "ValueError"]

\* the three strategy names and one name resolve_deadlock does not know
Strategies == {"resource_preemption", "process_termination", "banker",
               "preemption"}

\* no ResourceManager takes part
BlankLedger ==
  /\ available_resources = ZeroVec
  /\ allocated_resources = [p \in Procs |-> ZeroVec]
  /\ needed_resources = [p \in Procs |-> ZeroVec]
  /\ max_resources = [p \in Procs |-> ZeroVec]
  /\ priority = [p \in Procs |-> 0]
  /\ deadlock_processes = <<>>
  /\ total = ZeroVec
  /\ safe0 = TRUE

\* DeadlockResolver(system_state) on a populated SystemState
InitResolver ==
  /\ BlankLedger
  /\ sched = NoScheduler
  /\ call = [op |-> "init", pid |-> UnknownPid, vec |-> ZeroVec]
  /\ ret = FALSE
  /\ \E av \in Vec(0, MaxAvail), al \in [Procs -> Vec(0, MaxAlloc)],
        rq \in [Procs -> Vec(0, MaxNeed)], ids \in IdAssignments :
       system_state =
         [processes |-> [k \in Procs |-> [id |-> ids[k], priority |-> k,
                                          state |-> "ready"]],
          available_resources |-> av,
          allocation_matrix |-> al,
          request_matrix |-> rq,
          max_matrix |-> [p \in Procs |-> VAdd(al[p], rq[p])]]

Resolve(strategy, deadlock_procs) ==
  /\ call' = [op |-> "resolve_deadlock", strategy |-> strategy,
              deadlock_processes |-> deadlock_procs]
  /\ LET r == ResolveDeadlock(system_state, strategy, deadlock_procs)
     IN /\ system_state' = r.S
        /\ ret' = r.ret
  /\ UNCHANGED <<available_resources, max_resources, allocated_resources,
                 needed_resources, priority, deadlock_processes, total, safe0,
                 sched>>

NextResolver ==
  \E strategy \in Strategies, deadlock_procs \in ProcessLists :
    Resolve(strategy, deadlock_procs)

SpecResolver == InitResolver /\ [][NextResolver]_vars

\* ---------------------------------------------------------------------------
\* The schedulers (src/scheduling.py).  A scheduler object s has the fields
\* of Scheduler.__init__ and of its subclass; the per-process attributes
\* (remaining_time, waiting_time, execution_time, arrival_time and, for the
\* Banker's-gated scheduler, the needed and allocated vectors of its process
\* copies) are kept as functions of the pid.  s.pc tells whether
\* run_simulation is in its while loop ("run") or not ("idle").  The
\* Banker's-gated scheduler works on the available_resources of the
\* ResourceManager it was given.
MaxBurst == 2
MaxArrival == 1
MaxQuantum == 2
MaxSteps == 3
MaxTime == 4
NumJobs == 3
NoProcess == 0

\* Scheduler.__init__ and the subclass constructors
NewScheduler(kind, bursts, arrival, quantum, nd, al) ==
  [kind |-> kind,
   processes |-> [k \in DOMAIN bursts |-> k],
   time |-> 0,
   running_process |-> NoProcess,
   ready_queue |-> IF kind = "fcfs" THEN SortedAsc([k \in DOMAIN bursts |-> k], arrival)
                   ELSE [k \in DOMAIN bursts |-> k],
   completed_processes |-> <<>>,
   history |-> <<>>,
   burst_time |-> bursts,
   remaining_time |-> bursts,
   waiting_time |-> [p \in DOMAIN bursts |-> 0],
   execution_time |-> [p \in DOMAIN bursts |-> 0],
   arrival_time |-> arrival,
   time_quantum |-> quantum,
   current_quantum |-> 0,
   needed_resources |-> nd,
   allocated_resources |-> al,
   pc |-> "idle",
   max_steps |-> 0]

\* is_complete()
IsComplete(s) == Len(s.completed_processes) = Len(s.processes)

\* Scheduler.step(): self.time += 1
Tick(s) == [s EXCEPT !.time = @ + 1]

\* a dispatch that takes the process at the tail of the queue
Dispatch_Tail(s) ==
  IF s.running_process = NoProcess /\ s.ready_queue # <<>>
  THEN [s EXCEPT !.running_process = s.ready_queue[Len(s.ready_queue)],
                 !.ready_queue = SubSeq(s.ready_queue, 1, Len(s.ready_queue) - 1),
                 !.current_quantum = IF s.kind = "rr" THEN 0 ELSE @]
  ELSE s

\* a dispatch that leaves the dispatched process in the ready queue
Dispatch_KeepQueued(s) ==
  IF s.running_process = NoProcess /\ s.ready_queue # <<>>
  THEN [s EXCEPT !.running_process = Head(s.ready_queue),
                 !.current_quantum = IF s.kind = "rr" THEN 0 ELSE @]
  ELSE s

\* if self.running_process is None and self.ready_queue: popleft()
Dispatch(s) ==
  IF s.running_process = NoProcess /\ s.ready_queue # <<>>
  THEN [s EXCEPT !.running_process = Head(s.ready_queue),
                 !.ready_queue = Tail(s.ready_queue),
                 !.current_quantum = IF s.kind = "rr" THEN 0 ELSE @]
  ELSE s

\* a tick that is charged to the process but does not shorten its burst
Execute_KeepRemaining(s) ==
  LET r == s.running_process
  IN [s EXCEPT !.execution_time[r] = @ + 1,
               !.current_quantum = IF s.kind = "rr" THEN @ + 1 ELSE @,
               !.waiting_time = [p \in DOMAIN s.waiting_time |->
                                   IF p \in SeqRange(s.ready_queue)
                                   THEN s.waiting_time[p] + 1
                                   ELSE s.waiting_time[p]]]

\* remaining_time -= 1; execution_time += 1; (current_quantum += 1;)
\* update_waiting_times()
Execute(s) ==
  LET r == s.running_process
  IN [s EXCEPT !.remaining_time[r] = @ - 1,
               !.execution_time[r] = @ + 1,
               !.current_quantum = IF s.kind = "rr" THEN @ + 1 ELSE @,
               !.waiting_time = [p \in DOMAIN s.waiting_time |->
                                   IF p \in SeqRange(s.ready_queue)
                                   THEN s.waiting_time[p] + 1
                                   ELSE s.waiting_time[p]]]

\* the record self.history.append(...) writes
HistoryRecord(s, av) ==
  IF s.kind = "fcfs"
  THEN [time |-> s.time, running |-> s.running_process,
        ready_queue |-> s.ready_queue, completed |-> s.completed_processes]
  ELSE IF s.kind = "rr"
  THEN [time |-> s.time, running |-> s.running_process,
        ready_queue |-> s.ready_queue, completed |-> s.completed_processes,
        quantum |-> s.current_quantum]
  ELSE [time |-> s.time, running |-> s.running_process,
        ready_queue |-> s.ready_queue, completed |-> s.completed_processes,
        available |-> av]

\* a history that keeps only the newest record
Record_Overwrite(s, av) == [s EXCEPT !.history = <<HistoryRecord(s, av)>>]

Record(s, av) == [s EXCEPT !.history = Append(@, HistoryRecord(s, av))]

\* FCFSScheduler.step()
FCFSStep(s, av) ==
  LET d == Dispatch(s)
  IN IF d.running_process # NoProcess
     THEN LET h == Record(Execute(d), av)
              r == h.running_process
          IN IF h.remaining_time[r] <= 0
             THEN [s |-> Tick([h EXCEPT !.completed_processes = Append(@, r),
                                        !.running_process = NoProcess]),
                   av |-> av]
             ELSE [s |-> Tick(h), av |-> av]
     ELSE [s |-> Tick(d), av |-> av]

\* a Round-Robin step that never takes the processor back
RoundRobinStep_NoRotation(s, av) == FCFSStep(s, av)

\* RoundRobinScheduler.step()
RoundRobinStep(s, av) ==
  LET d == Dispatch(s)
  IN IF d.running_process # NoProcess
     THEN LET h == Record(Execute(d), av)
              r == h.running_process
          IN IF h.remaining_time[r] <= 0
             THEN [s |-> Tick([h EXCEPT !.completed_processes = Append(@, r),
                                        !.running_process = NoProcess]),
                   av |-> av]
             ELSE IF h.current_quantum >= h.time_quantum
             THEN [s |-> Tick([h EXCEPT !.ready_queue = Append(@, r),
                                        !.running_process = NoProcess]),
                   av |-> av]
             ELSE [s |-> Tick(h), av |-> av]
     ELSE [s |-> Tick(d), av |-> av]

\* BankersScheduler.is_safe(process)
BankersIsSafe(s, av, process) ==
  LET work == VSub(av, s.needed_resources[process])
  IN IF \E i \in Res : work[i] < 0 THEN FALSE
     ELSE \A k \in 1..Len(s.ready_queue) :
            s.ready_queue[k] # process
              => AllLe(s.needed_resources[s.ready_queue[k]], work)

\* the admission loop of BankersScheduler.step(): the first process of the
\* ready queue, from position i on, that passes both tests
RECURSIVE Admit(_, _, _)
Admit(s, av, i) ==
  IF i > Len(s.ready_queue) THEN [s |-> s, av |-> av]
  ELSE LET p == s.ready_queue[i]
       IN IF AllLe(s.needed_resources[p], av) /\ BankersIsSafe(s, av, p)
          THEN [s |-> [s EXCEPT !.running_process = p,
                                !.ready_queue = SubSeq(@, 1, i - 1)
                                                  \o SubSeq(@, i + 1, Len(@)),
                                !.allocated_resources[p] =
                                   VAdd(@, s.needed_resources[p]),
                                !.needed_resources[p] = ZeroVec],
                av |-> VSub(av, s.needed_resources[p])]
          ELSE Admit(s, av, i + 1)

\* a step whose completion keeps what the process holds
BankersStep_NoRelease(s, av) ==
  LET a == IF s.running_process = NoProcess THEN Admit(s, av, 1)
           ELSE [s |-> s, av |-> av]
  IN IF a.s.running_process # NoProcess
     THEN LET h == Record(Execute(a.s), a.av)
              r == h.running_process
          IN IF h.remaining_time[r] <= 0
             THEN [s |-> Tick([h EXCEPT !.completed_processes = Append(@, r),
                                        !.running_process = NoProcess]),
                   av |-> a.av]
             ELSE [s |-> Tick(h), av |-> a.av]
     ELSE [s |-> Tick(a.s), av |-> a.av]

\* a step whose idle tick moves the head of the ready queue to its tail
BankersStep_IdleRotates(s, av) ==
  LET a == IF s.running_process = NoProcess THEN Admit(s, av, 1)
           ELSE [s |-> s, av |-> av]
  IN IF a.s.running_process # NoProcess
     THEN LET h == Record(Execute(a.s), a.av)
              r == h.running_process
          IN IF h.remaining_time[r] <= 0
             THEN [s |-> Tick([h EXCEPT !.completed_processes = Append(@, r),
                                        !.running_process = NoProcess]),
                   av |-> VAdd(a.av, h.allocated_resources[r])]
             ELSE [s |-> Tick(h), av |-> a.av]
     ELSE [s |-> Tick([a.s EXCEPT !.ready_queue =
                         IF @ = <<>> THEN @ ELSE Append(Tail(@), Head(@))]),
           av |-> a.av]

\* BankersScheduler.step()
BankersStep(s, av) ==
  LET a == IF s.running_process = NoProcess THEN Admit(s, av, 1)
           ELSE [s |-> s, av |-> av]
  IN IF a.s.running_process # NoProcess
     THEN LET h == Record(Execute(a.s), a.av)
              r == h.running_process
          IN IF h.remaining_time[r] <= 0
             THEN [s |-> Tick([h EXCEPT !.completed_processes = Append(@, r),
                                        !.running_process = NoProcess]),
                   av |-> VAdd(a.av, h.allocated_resources[r])]
             ELSE [s |-> Tick(h), av |-> a.av]
     ELSE [s |-> Tick(a.s), av |-> a.av]

\* step() of the scheduler's class
SchedulerStep(s, av) ==
  IF s.kind = "fcfs" THEN FCFSStep(s, av)
  ELSE IF s.kind = "rr" THEN RoundRobinStep(s, av)
  ELSE BankersStep(s, av)

\* FCFSScheduler(processes), RoundRobinScheduler(processes, time_quantum) on
\* processes that belong to no manager, or BankersScheduler(manager,
\* processes) on copies of the manager's processes
InitSched ==
  /\ system_state = NoSystem
  /\ call = [op |-> "init"]
  /\ ret = <<>>
  /\ priority = [p \in Procs |-> 0]
  /\ deadlock_processes = <<>>
  /\ \E bursts \in [Procs -> 1..MaxBurst] :
       \/ /\ available_resources = ZeroVec
          /\ allocated_resources = [p \in Procs |-> ZeroVec]
          /\ needed_resources = [p \in Procs |-> ZeroVec]
          /\ \/ \E arrival \in [Procs -> 0..MaxArrival] :
                  sched = NewScheduler("fcfs", bursts, arrival, 0,
                                       needed_resources, allocated_resources)
             \/ \E quantum \in 1..MaxQuantum :
                  sched = NewScheduler("rr", bursts, [p \in Procs |-> 0], quantum,
                                       needed_resources, allocated_resources)
       \/ /\ available_resources \in Vec(0, MaxAvail)
          /\ allocated_resources \in [Procs -> Vec(0, MaxAlloc)]
          /\ needed_resources \in [Procs -> Vec(0, MaxNeed)]
          /\ sched = NewScheduler("bankers", bursts, [p \in Procs |-> 0], 0,
                                  needed_resources, allocated_resources)
  /\ max_resources = [p \in Procs |-> VAdd(allocated_resources[p], needed_resources[p])]
  /\ total = Holdings(available_resources, allocated_resources)
  /\ safe0 = IsSafe(available_resources, allocated_resources, needed_resources)

\* what a scheduler step leaves alone
SchedFrame ==
  UNCHANGED <<max_resources, allocated_resources, needed_resources, priority,
              deadlock_processes, total, safe0, system_state>>

\* one iteration of step() applied to the scheduler and its manager
DoStep ==
  LET r == SchedulerStep(sched, available_resources)
  IN /\ sched' = r.s
     /\ available_resources' = r.av

\* scheduler.step() called directly
Step ==
  /\ sched.pc = "idle"
  /\ sched.time < MaxTime
  /\ DoStep
  /\ call' = [op |-> "step"]
  /\ UNCHANGED ret
  /\ SchedFrame

\* run_simulation(max_steps) is entered
RunSimulation(max_steps) ==
  /\ sched.pc = "idle"
  /\ sched' = [sched EXCEPT !.pc = "run", !.max_steps = max_steps]
  /\ call' = [op |-> "run_simulation"]
  /\ UNCHANGED <<available_resources, ret>>
  /\ SchedFrame

\* the loop that only watches the step budget
RunIteration_IgnoreComplete ==
  /\ sched.pc = "run"
  /\ sched.time < sched.max_steps
  /\ DoStep
  /\ call' = [op |-> "step"]
  /\ UNCHANGED ret
  /\ SchedFrame

\* while not self.is_complete() and self.time < max_steps: self.step()
RunIteration ==
  /\ sched.pc = "run"
  /\ ~IsComplete(sched)
  /\ sched.time < sched.max_steps
  /\ DoStep
  /\ call' = [op |-> "step"]
  /\ UNCHANGED ret
  /\ SchedFrame

\* return self.history
RunReturn ==
  /\ sched.pc = "run"
  /\ ~(~IsComplete(sched) /\ sched.time < sched.max_steps)
  /\ sched' = [sched EXCEPT !.pc = "idle"]
  /\ call' = [op |-> "return"]
  /\ ret' = sched.history
  /\ UNCHANGED available_resources
  /\ SchedFrame

NextSched ==
  \/ Step
  \/ \E max_steps \in 0..MaxSteps : RunSimulation(max_steps)
  \/ RunIteration
  \/ RunReturn

SpecSched == InitSched /\ [][NextSched]_vars

\* the schedulers whose processes hold nothing at construction
InitSchedRun ==
  /\ InitSched
  /\ allocated_resources = [p \in Procs |-> ZeroVec]

\* run_simulation alone, called on a scheduler as constructed and again
\* after it returned; the loop is not abandoned half-way
NextRun ==
  \/ \E max_steps \in 0..MaxSteps : RunSimulation(max_steps)
  \/ RunIteration
  \/ RunReturn

SpecSchedFair ==
  InitSchedRun /\ [][NextRun]_vars /\ WF_vars(RunIteration) /\ WF_vars(RunReturn)

\* add_process(process): initialises the process's counters and appends it
\* to self.processes; the ready queue, a deque built by the constructor, is
\* not touched.  The new process gets the next pid.
AddProcess(burst) ==
  /\ sched.pc = "idle"
  /\ Len(sched.processes) < NumJobs
  /\ LET p == Len(sched.processes) + 1
         Put(f, v) == [q \in DOMAIN f \cup {p} |-> IF q = p THEN v ELSE f[q]]
     IN sched' = [sched EXCEPT !.processes = Append(@, p),
                               !.burst_time = Put(sched.burst_time, burst),
                               !.remaining_time = Put(sched.remaining_time, burst),
                               !.waiting_time = Put(sched.waiting_time, 0),
                               !.execution_time = Put(sched.execution_time, 0),
                               !.arrival_time = Put(sched.arrival_time, 0)]
  /\ call' = [op |-> "add_process"]
  /\ UNCHANGED <<available_resources, ret>>
  /\ SchedFrame

\* an FCFS or Round-Robin scheduler as constructed
InitAdd ==
  /\ InitSchedRun
  /\ sched.kind \in {"fcfs", "rr"}

\* add_process between runs of run_simulation, whose loop is not abandoned
\* half-way
NextAdd ==
  \/ \E burst \in 1..MaxBurst : AddProcess(burst)
  \/ \E max_steps \in 0..MaxSteps : RunSimulation(max_steps)
  \/ RunIteration
  \/ RunReturn

SpecAdd ==
  InitAdd /\ [][NextAdd]_vars /\ WF_vars(RunIteration) /\ WF_vars(RunReturn)

\* BankersScheduler(manager, processes) constructed directly on a list of
\* NumJobs processes of its own, and stepped
Jobs == 1..NumJobs
InitBankers ==
  /\ system_state = NoSystem
  /\ call = [op |-> "init"]
  /\ ret = <<>>
  /\ priority = [p \in Procs |-> 0]
  /\ deadlock_processes = <<>>
  /\ available_resources \in Vec(0, MaxAvail)
  /\ allocated_resources = [p \in Procs |-> ZeroVec]
  /\ needed_resources = [p \in Procs |-> ZeroVec]
  /\ max_resources = [p \in Procs |-> ZeroVec]
  /\ total = Holdings(available_resources, allocated_resources)
  /\ safe0 = IsSafe(available_resources, allocated_resources, needed_resources)
  /\ \E bursts \in [Jobs -> 1..MaxBurst], al \in [Jobs -> Vec(0, MaxAlloc)],
        nd \in [Jobs -> Vec(0, MaxNeed)] :
       sched = NewScheduler("bankers", bursts, [p \in Jobs |-> 0], 0, nd, al)

SpecBankers == InitBankers /\ [][Step]_vars



\* ---------------------------------------------------------------------------
\* The live lock monitor (src/realtimeDetect.py): two threads run
\* thread_job on two MonitorLocks taken in opposite orders while a third
\* thread calls detect_deadlock().  The monitor's state M is kept in
\* system_state:
\*   M.pc            the position of each thread in Program
\*   M.lock          MonitorLock._lock, TRUE while the threading.Lock is held
\*   M.owner         MonitorLock._owner, NoThread for None
\*   M.waiting_info  the global dict, as the list of its items in insertion
\*                   order, each [thread, locks]
\*   M.detect        the position of the running detect_deadlock() call
\* Every step is one access to the shared state, so that all interleavings
\* of the three threads are explored.
NumThreads == 2
Threads == 1..NumThreads
Locks == 1..NumThreads
NoThread == 0

\* thread_job(lock1, lock2): lock1.acquire(); lock2.acquire();
\* lock2.release(); lock1.release(), each call split into its accesses
Program ==
  <<[op |-> "register", k |-> 1], [op |-> "lock", k |-> 1],
    [op |-> "own", k |-> 1], [op |-> "unregister", k |-> 1],
    [op |-> "register", k |-> 2], [op |-> "lock", k |-> 2],
    [op |-> "own", k |-> 2], [op |-> "unregister", k |-> 2],
    [op |-> "disown", k |-> 2], [op |-> "unlock", k |-> 2],
    [op |-> "disown", k |-> 1], [op |-> "unlock", k |-> 1]>>

\* the k-th lock of thread t: thread t starts with lock t and goes round
LockOf(t, k) == ((t + k - 2) % NumThreads) + 1

\* the position of thread t's item in waiting_info, 0 if it has none
KeyIndex(w, t) ==
  IF \E j \in 1..Len(w) : w[j].thread = t
  THEN CHOOSE j \in 1..Len(w) : w[j].thread = t
  ELSE 0

\* waiting_info.setdefault(current, []).append(self)
Register(M, t, l) ==
  LET j == KeyIndex(M.waiting_info, t)
  IN IF j = 0
     THEN [M EXCEPT !.waiting_info = Append(@, [thread |-> t, locks |-> <<l>>])]
     ELSE [M EXCEPT !.waiting_info[j].locks = Append(@, l)]

\* waiting_info[current].remove(self)
Unregister(M, t, l) ==
  [M EXCEPT !.waiting_info[KeyIndex(M.waiting_info, t)].locks = RemoveFirst(@, l)]

\* one access of thread t
ThreadAccess(M, t) ==
  LET ins == Program[M.pc[t]]
      l == LockOf(t, ins.k)
      N == [M EXCEPT !.pc[t] = @ + 1]
  IN IF ins.op = "register" THEN Register(N, t, l)
     ELSE IF ins.op = "lock" THEN [N EXCEPT !.lock[l] = TRUE]
     ELSE IF ins.op = "own" THEN [N EXCEPT !.owner[l] = t]
     ELSE IF ins.op = "unregister" THEN Unregister(N, t, l)
     ELSE IF ins.op = "disown" THEN [N EXCEPT !.owner[l] = NoThread]
     ELSE [N EXCEPT !.lock[l] = FALSE]

\* self._lock.acquire() returns only when the lock is free
CanRun(M, t) ==
  /\ M.pc[t] <= Len(Program)
  /\ Program[M.pc[t]].op = "lock" => ~M.lock[LockOf(t, Program[M.pc[t]].k)]

\* nx.find_cycle(graph, orientation='original') on the edges in the order
\* they were added: the search starts at the first node of the graph and
\* returns the cycle's edges as (u, v, 'forward'); <<>> stands for None
NoCycle == <<>>
FindWaitCycle(edges) ==
  IF \E a, b \in 1..Len(edges) : edges[a] = <<edges[b][2], edges[b][1]>>
  THEN LET first == CHOOSE a \in 1..Len(edges) :
                      /\ \E b \in 1..Len(edges) : edges[a] = <<edges[b][2], edges[b][1]>>
                      /\ \A c \in 1..(a - 1) :
                           ~\E b \in 1..Len(edges) : edges[c] = <<edges[b][2], edges[b][1]>>
           u == edges[first][1]
           v == edges[first][2]
       IN <<<<u, v, "forward">>, <<v, u, "forward">>>>
  ELSE NoCycle

\* graph.add_edge(thread, owner): a DiGraph keeps one edge per pair
AddEdge(edges, e) ==
  IF \E a \in 1..Len(edges) : edges[a] = e THEN edges ELSE Append(edges, e)

\* thread t is in self._lock.acquire() on a lock that another thread owns
BlockedOn(M, t) ==
  /\ M.pc[t] <= Len(Program)
  /\ Program[M.pc[t]].op = "lock"
  /\ LET l == LockOf(t, Program[M.pc[t]].k)
     IN M.lock[l] /\ M.owner[l] \in Threads \ {t}
\* every thread is blocked on a lock that another blocked thread owns
Deadlocked(M) == \A t \in Threads : BlockedOn(M, t)

\* detect_deadlock() is entered: the iterator over waiting_info.items().
\* in_deadlock remembers whether the threads were deadlocked when the call
\* began; no step reads it.
DetectIdle == [pc |-> "idle", k |-> 0, n |-> 0, thread |-> NoThread,
               idx |-> 0, lock |-> 0, edges |-> <<>>, in_deadlock |-> FALSE]
DetectEnter(M) ==
  [M EXCEPT !.detect = [pc |-> "items", k |-> 1, n |-> Len(M.waiting_info),
                        thread |-> NoThread, idx |-> 0, lock |-> 0,
                        edges |-> <<>>, in_deadlock |-> Deadlocked(M)]]

\* one access of detect_deadlock():
\*   "items"  the next item of the dict: RuntimeError if the dict changed
\*            size during the iteration, find_cycle once the items are
\*            exhausted
\*   "locks"  the next element of the item's list, which is the thread's
\*            own list object and is read at the iterator's index
\*   "owner"  lock.owner of that element, and add_edge
DetectAccess(M) ==
  LET d == M.detect
      running == [raised |-> "", value |-> NoCycle]
  IN IF d.pc = "items"
     THEN IF Len(M.waiting_info) # d.n
          THEN [M |-> [M EXCEPT !.detect = DetectIdle],
                ret |-> [raised |-> "RuntimeError", value |-> NoCycle], done |-> TRUE]
          ELSE IF d.k > d.n
          THEN [M |-> [M EXCEPT !.detect = DetectIdle],
                ret |-> [raised |-> "", value |-> FindWaitCycle(d.edges)], done |-> TRUE]
          ELSE [M |-> [M EXCEPT !.detect.pc = "locks",
                                !.detect.k = @ + 1,
                                !.detect.thread = M.waiting_info[d.k].thread,
                                !.detect.idx = 1],
                ret |-> running, done |-> FALSE]
     ELSE IF d.pc = "locks"
     THEN LET locks == M.waiting_info[KeyIndex(M.waiting_info, d.thread)].locks
          IN IF d.idx > Len(locks)
             THEN [M |-> [M EXCEPT !.detect.pc = "items"],
                   ret |-> running, done |-> FALSE]
             ELSE [M |-> [M EXCEPT !.detect.pc = "owner",
                                   !.detect.lock = locks[d.idx],
                                   !.detect.idx = @ + 1],
                   ret |-> running, done |-> FALSE]
     ELSE LET owner == M.owner[d.lock]
          IN [M |-> [M EXCEPT !.detect.pc = "locks",
                              !.detect.edges =
                                 IF owner # NoThread /\ owner # d.thread
                                 THEN AddEdge(@, <<d.thread, owner>>)
                                 ELSE @],
              ret |-> running, done |-> FALSE]

\* two MonitorLocks, no thread started yet
InitMonitor ==
  /\ BlankLedger
  /\ sched = NoScheduler
  /\ call = [op |-> "init"]
  /\ ret = [raised |-> "", value |-> NoCycle]
  /\ system_state = [pc |-> [t \in Threads |-> 1],
                     lock |-> [l \in Locks |-> FALSE],
                     owner |-> [l \in Locks |-> NoThread],
                     waiting_info |-> <<>>,
                     detect |-> DetectIdle]

MonitorFrame ==
  UNCHANGED <<available_resources, max_resources, allocated_resources,
              needed_resources, priority, deadlock_processes, total, safe0,
              sched>>

ThreadStep(t) ==
  /\ CanRun(system_state, t)
  /\ system_state' = ThreadAccess(system_state, t)
  /\ call' = [op |-> Program[system_state.pc[t]].op, thread |-> t]
  /\ UNCHANGED ret
  /\ MonitorFrame

DetectCall ==
  /\ system_state.detect.pc = "idle"
  /\ system_state' = DetectEnter(system_state)
  /\ call' = [op |-> "detect_deadlock", thread |-> NoThread]
  /\ UNCHANGED ret
  /\ MonitorFrame

DetectStep ==
  /\ system_state.detect.pc # "idle"
  /\ LET r == DetectAccess(system_state)
     IN /\ system_state' = r.M
        /\ ret' = IF r.done THEN r.ret ELSE ret
        /\ call' = [op |-> IF r.done THEN "detect_return" ELSE "detect_scan",
                    thread |-> NoThread]
  /\ MonitorFrame

NextMonitor ==
  \/ \E t \in Threads : ThreadStep(t)
  \/ DetectCall
  \/ DetectStep

SpecMonitor == InitMonitor /\ [][NextMonitor]_vars

\* ---------------------------------------------------------------------------
\* create_deadlock_scenario (src/deadlock_core.py) and the manager it
\* returns.  The scenarios have three to six processes and two to six
\* resource types, so the operators below take the sizes from their
\* arguments: a vector is a sequence over the resource types, al and nd are
\* sequences over the processes.
LastScenario == 9

\* Process(pid, max, allocated, needed) of each scenario, pid = position
ScenarioProcesses(scenario_id) ==
  IF scenario_id = 1 THEN
    << [max |-> <<1,0,0>>, allocated |-> <<1,0,0>>, needed |-> <<0,1,0>>],
       [max |-> <<0,1,0>>, allocated |-> <<0,1,0>>, needed |-> <<0,0,1>>],
       [max |-> <<0,0,1>>, allocated |-> <<0,0,1>>, needed |-> <<1,0,0>>] >>
  ELSE IF scenario_id = 2 THEN
    << [max |-> <<1,1>>, allocated |-> <<1,0>>, needed |-> <<0,1>>],
       [max |-> <<1,1>>, allocated |-> <<0,1>>, needed |-> <<1,0>>] >>
  ELSE IF scenario_id = 3 THEN
    << [max |-> <<1,0,0,0>>, allocated |-> <<1,0,0,0>>, needed |-> <<0,1,0,0>>],
       [max |-> <<0,1,0,0>>, allocated |-> <<0,1,0,0>>, needed |-> <<0,0,1,0>>],
       [max |-> <<0,0,1,0>>, allocated |-> <<0,0,1,0>>, needed |-> <<0,0,0,1>>],
       [max |-> <<0,0,0,1>>, allocated |-> <<0,0,0,1>>, needed |-> <<1,0,0,0>>] >>
  ELSE IF scenario_id = 4 THEN
    << [max |-> <<1,0,0>>, allocated |-> <<1,0,0>>, needed |-> <<0,1,0>>],
       [max |-> <<0,1,0>>, allocated |-> <<0,1,0>>, needed |-> <<0,0,1>>],
       [max |-> <<0,0,1>>, allocated |-> <<0,0,1>>, needed |-> <<1,0,0>>],
       [max |-> <<0,0,0>>, allocated |-> <<0,0,0>>, needed |-> <<0,0,1>>] >>
  ELSE IF scenario_id = 5 THEN
    << [max |-> <<1,1,0,0>>, allocated |-> <<1,0,0,0>>, needed |-> <<0,1,0,0>>],
       [max |-> <<0,1,1,0>>, allocated |-> <<0,1,0,0>>, needed |-> <<0,0,1,0>>],
       [max |-> <<0,0,1,1>>, allocated |-> <<0,0,1,0>>, needed |-> <<0,0,0,1>>],
       [max |-> <<1,0,0,1>>, allocated |-> <<0,0,0,1>>, needed |-> <<1,0,0,0>>] >>
  ELSE IF scenario_id = 6 THEN
    << [max |-> <<0,1>>, allocated |-> <<0,0>>, needed |-> <<0,1>>],
       [max |-> <<0,1>>, allocated |-> <<0,0>>, needed |-> <<0,1>>],
       [max |-> <<1,0>>, allocated |-> <<1,0>>, needed |-> <<0,1>>],
       [max |-> <<1,0>>, allocated |-> <<1,0>>, needed |-> <<0,1>>] >>
  ELSE IF scenario_id = 7 THEN
    << [max |-> <<1,0,0,0,0>>, allocated |-> <<1,0,0,0,0>>, needed |-> <<0,1,0,0,0>>],
       [max |-> <<0,1,0,0,0>>, allocated |-> <<0,1,0,0,0>>, needed |-> <<0,0,1,1,0>>],
       [max |-> <<0,0,1,0,0>>, allocated |-> <<0,0,1,0,0>>, needed |-> <<1,0,0,0,1>>],
       [max |-> <<0,0,0,1,0>>, allocated |-> <<0,0,0,1,0>>, needed |-> <<0,0,0,0,1>>],
       [max |-> <<0,0,0,0,1>>, allocated |-> <<0,0,0,0,1>>, needed |-> <<0,1,0,0,0>>] >>
  ELSE IF scenario_id = 8 THEN
    << [max |-> <<1,2,0>>, allocated |-> <<1,0,0>>, needed |-> <<0,2,1>>],
       [max |-> <<0,2,1>>, allocated |-> <<0,2,0>>, needed |-> <<1,0,1>>],
       [max |-> <<1,0,2>>, allocated |-> <<0,0,2>>, needed |-> <<1,1,0>>] >>
  ELSE IF scenario_id = 9 THEN
    << [max |-> <<1,0,0,0,0,0>>, allocated |-> <<1,0,0,0,0,0>>, needed |-> <<0,1,0,0,0,0>>],
       [max |-> <<0,1,0,0,0,0>>, allocated |-> <<0,1,0,0,0,0>>, needed |-> <<0,0,1,0,0,0>>],
       [max |-> <<0,0,1,0,0,0>>, allocated |-> <<0,0,1,0,0,0>>, needed |-> <<0,0,0,1,0,0>>],
       [max |-> <<0,0,0,1,0,0>>, allocated |-> <<0,0,0,1,0,0>>, needed |-> <<0,0,0,0,1,0>>],
       [max |-> <<0,0,0,0,1,0>>, allocated |-> <<0,0,0,0,1,0>>, needed |-> <<0,0,0,0,0,1>>],
       [max |-> <<0,0,0,0,0,1>>, allocated |-> <<0,0,0,0,0,1>>, needed |-> <<1,0,0,0,0,0>>] >>
  ELSE <<>>

\* raise ValueError("Invalid scenario ID")
InvalidScenario == [raised |-> "ValueError"]

\* create_deadlock_scenario(scenario_id): ResourceManager([0]*m) with the
\* scenario's processes added
CreateDeadlockScenario(scenario_id) ==
  LET ps == ScenarioProcesses(scenario_id)
  IN IF ps = <<>> THEN InvalidScenario
     ELSE [available |-> [i \in 1..Len(ps[1].max) |-> 0], processes |-> ps]

\* detect_deadlock() with the sizes taken from the manager: the successors
\* of each node in the order add_edge inserted them
AdjOf(av, al, nd) ==
  LET held(i) == \E p \in 1..Len(al) : al[p][i] > 0
      procs == [p \in 1..Len(al) |-> p]
      ress == [i \in 1..Len(av) |-> i]
  IN [n \in {PNode(p) : p \in 1..Len(al)} \cup {RNode(i) : i \in 1..Len(av)} |->
        IF n[1] = "P"
        THEN LET want == SelectSeq(ress, LAMBDA i : /\ nd[n[2]][i] > 0
                                                    /\ av[i] < nd[n[2]][i]
                                                    /\ held(i))
             IN [k \in 1..Len(want) |-> RNode(want[k])]
        ELSE LET holders == SelectSeq(procs, LAMBDA p : al[p][n[2]] > 0)
             IN [k \in 1..Len(holders) |-> PNode(holders[k])]]

\* the nodes in insertion order: P{pid}, then the resources it holds that
\* are not yet in the graph
RECURSIVE NodeOrderOf(_, _, _)
NodeOrderOf(al, p, sofar) ==
  IF p > Len(al) THEN <<>>
  ELSE LET fresh == SelectSeq([i \in 1..Len(al[p]) |-> i],
                              LAMBDA i : al[p][i] > 0 /\ RNode(i) \notin sofar)
           new == <<PNode(p)>> \o [k \in 1..Len(fresh) |-> RNode(fresh[k])]
       IN new \o NodeOrderOf(al, p + 1, sofar \cup SeqRange(new))

\* the processes, in list order, that start an edge of the cycle found
DetectDeadlockOf(av, al, nd) ==
  LET cycle == FindCycleFrom(AdjOf(av, al, nd), NodeOrderOf(al, 1, {}), 1, {})
  IN SelectSeq([p \in 1..Len(al) |-> p],
               LAMBDA p : \E k \in 1..Len(cycle) : cycle[k][1] = PNode(p))

\* the application's engine: self.resource_manager = None
NoManager == <<>>
InitScenario ==
  /\ available_resources = NoManager
  /\ max_resources = NoManager
  /\ allocated_resources = NoManager
  /\ needed_resources = NoManager
  /\ priority = NoManager
  /\ deadlock_processes = <<>>
  /\ call = [op |-> "init"]
  /\ ret = FALSE
  /\ total = NoManager
  /\ safe0 = TRUE
  /\ system_state = NoSystem
  /\ sched = NoScheduler

\* load_scenario(scenario_id): self.resource_manager =
\* create_deadlock_scenario(scenario_id)
LoadScenario(scenario_id) ==
  /\ call' = [op |-> "load_scenario", scenario_id |-> scenario_id]
  /\ LET m == CreateDeadlockScenario(scenario_id)
     IN IF m = InvalidScenario
        THEN /\ ret' = "ValueError"
             /\ UNCHANGED <<available_resources, max_resources, allocated_resources,
                            needed_resources, priority, deadlock_processes>>
        ELSE /\ ret' = TRUE
             /\ available_resources' = m.available
             /\ max_resources' = [p \in 1..Len(m.processes) |-> m.processes[p].max]
             /\ allocated_resources' =
                  [p \in 1..Len(m.processes) |-> m.processes[p].allocated]
             /\ needed_resources' =
                  [p \in 1..Len(m.processes) |-> m.processes[p].needed]
             /\ priority' = [p \in 1..Len(m.processes) |-> 0]
             /\ deadlock_processes' = <<>>
  /\ UNCHANGED <<total, safe0, system_state, sched>>

\* on_detect_deadlock: self.resource_manager.detect_deadlock()
DetectScenario ==
  /\ max_resources # NoManager
  /\ call' = [op |-> "detect_deadlock"]
  /\ deadlock_processes' = DetectDeadlockOf(available_resources, allocated_resources,
                                            needed_resources)
  /\ ret' = deadlock_processes'
  /\ UNCHANGED <<available_resources, max_resources, allocated_resources,
                 needed_resources, priority, total, safe0, system_state, sched>>

\* release_resources(pid, resources) of one unit of resource type i
ReleaseUnit(pid, i) ==
  /\ pid \in 1..Len(max_resources)
  /\ i \in 1..Len(available_resources)
  /\ call' = [op |-> "release", pid |-> pid, unit |-> i]
  /\ IF allocated_resources[pid][i] < 1
     THEN /\ ret' = FALSE
          /\ UNCHANGED <<available_resources, allocated_resources, needed_resources>>
     ELSE /\ ret' = TRUE
          /\ available_resources' = [available_resources EXCEPT ![i] = @ + 1]
          /\ allocated_resources' = [allocated_resources EXCEPT ![pid][i] = @ - 1]
          /\ needed_resources' = [needed_resources EXCEPT ![pid][i] = @ + 1]
  /\ UNCHANGED <<max_resources, priority, deadlock_processes, total, safe0,
                 system_state, sched>>

NextScenario ==
  \/ \E scenario_id \in 0..(LastScenario + 1) : LoadScenario(scenario_id)
  \/ DetectScenario
  \/ \E pid \in 1..Len(max_resources), i \in 1..Len(available_resources) :
       ReleaseUnit(pid, i)

SpecScenario == InitScenario /\ [][NextScenario]_vars
\* ---------------------------------------------------------------------------
\* run_scheduling_simulation (src/scheduling.py) and the engine as a caller
\* holds it: a ResourceManager, a SystemState with its DeadlockResolver, and
\* the scheduler of the last simulation.
\* the algorithm names callers pass
Algorithms == {"fcfs", "rr", "bankers", "FCFS", "Round Robin", "sjf"}
\* algorithm.lower() on these names
Lower(algorithm) ==
  IF algorithm = "FCFS" THEN "fcfs"
  ELSE IF algorithm = "Round Robin" THEN "round robin"
  ELSE algorithm

\* run_simulation(max_steps) run to its return
RECURSIVE RunLoop(_, _)
RunLoop(s, av) ==
  IF ~IsComplete(s) /\ s.time < s.max_steps
  THEN LET r == SchedulerStep(s, av) IN RunLoop(r.s, r.av)
  ELSE [s |-> s, av |-> av]

\* run_scheduling_simulation that builds a Banker's-gated scheduler for a
\* name it does not know
SchedulerFor_Fallback(algorithm, bursts, quantum, nd, al) ==
  LET kind == Lower(algorithm)
      arrival == [p \in Procs |-> 0]
  IN IF kind = "fcfs" THEN NewScheduler("fcfs", bursts, arrival, 0, nd, al)
     ELSE IF kind = "rr" THEN NewScheduler("rr", bursts, arrival, quantum, nd, al)
     ELSE NewScheduler("bankers", bursts, arrival, 0, nd, al)

\* prepare_processes_for_scheduling and the if/elif chain that builds the
\* scheduler; NoScheduler stands for raise ValueError("Unsupported algorithm")
SchedulerFor(algorithm, bursts, quantum, nd, al) ==
  LET kind == Lower(algorithm)
      arrival == [p \in Procs |-> 0]
  IN IF kind = "fcfs" THEN NewScheduler("fcfs", bursts, arrival, 0, nd, al)
     ELSE IF kind = "rr" THEN NewScheduler("rr", bursts, arrival, quantum, nd, al)
     ELSE IF kind = "bankers" THEN NewScheduler("bankers", bursts, arrival, 0, nd, al)
     ELSE NoScheduler

\* run_scheduling_simulation(manager, algorithm, burst_times=, time_quantum=,
\* max_steps=); ret "ValueError" stands for the raise
RunSchedulingSimulation(algorithm, bursts, quantum, max_steps) ==
  /\ call' = [op |-> "run_scheduling_simulation", algorithm |-> algorithm]
  /\ LET s0 == SchedulerFor(algorithm, bursts, quantum,
                            needed_resources, allocated_resources)
     IN IF s0 = NoScheduler
        THEN /\ ret' = "ValueError"
             /\ UNCHANGED <<sched, available_resources>>
        ELSE LET r == RunLoop([s0 EXCEPT !.max_steps = max_steps],
                              available_resources)
             IN /\ sched' = r.s
                /\ available_resources' = r.av
                /\ ret' = r.s.history
  /\ SchedFrame

\* a ResourceManager on a circular-wait scenario and a SystemState holding
\* the same circular wait
InitEngine ==
  /\ available_resources = ZeroVec
  /\ \E N \in RingSizes, n \in 1..MaxNeed :
       /\ allocated_resources = RingAlloc(N, MaxAlloc)
       /\ needed_resources = RingNeed(N, n)
  /\ max_resources = [p \in Procs |-> VAdd(allocated_resources[p], needed_resources[p])]
  /\ priority = [p \in Procs |-> 0]
  /\ deadlock_processes = <<>>
  /\ call = [op |-> "init"]
  /\ ret = FALSE
  /\ total = Holdings(available_resources, allocated_resources)
  /\ safe0 = IsSafe(available_resources, allocated_resources, needed_resources)
  /\ sched = NoScheduler
  /\ system_state =
       [processes |-> [k \in Procs |-> [id |-> k, priority |-> k, state |-> "ready"]],
        available_resources |-> available_resources,
        allocation_matrix |-> allocated_resources,
        request_matrix |-> needed_resources,
        max_matrix |-> max_resources]

NextEngine ==
  \/ \E strategy \in Strategies :
       Resolve(strategy, DetectDeadlock(available_resources, allocated_resources,
                                        needed_resources))
  \/ \E algorithm \in Algorithms, bursts \in [Procs -> 1..MaxBurst],
        max_steps \in 0..MaxSteps :
       \E quantum \in (IF Lower(algorithm) = "rr" THEN 1..MaxQuantum ELSE {MaxQuantum}) :
         RunSchedulingSimulation(algorithm, bursts, quantum, max_steps)

SpecEngine == InitEngine /\ [][NextEngine]_vars

\* run_scheduling_simulation called once, with a supported algorithm, on a
\* manager with any ledger
Simulate(algorithm, bursts, quantum, max_steps) ==
  /\ sched = NoScheduler
  /\ RunSchedulingSimulation(algorithm, bursts, quantum, max_steps)

NextSimulation ==
  \E algorithm \in {"fcfs", "rr", "bankers"}, bursts \in [Procs -> 1..MaxBurst],
     max_steps \in 0..MaxSteps :
    \E quantum \in (IF algorithm = "rr" THEN 1..MaxQuantum ELSE {MaxQuantum}) :
      Simulate(algorithm, bursts, quantum, max_steps)

SpecSimulation == Init /\ [][NextSimulation]_vars

\* =================================================================== claims
Known == call.pid \in Procs
Applied(p, r) ==
  /\ available_resources' = VSub(available_resources, r)
  /\ allocated_resources' = [allocated_resources EXCEPT ![p] = VAdd(@, r)]
  /\ needed_resources' = [needed_resources EXCEPT ![p] = VSub(@, r)]

\* C1: for every resource type, available plus the allocations of all
\* processes keeps the value it had at construction, whatever sequence of
\* request, release and resolution calls ran, granted or rejected.
C1_Conservation == Holdings(available_resources, allocated_resources) = total

C1_Witness ==
  /\ call.op = "termination"
  /\ Len(ret) > 0
  /\ \E p \in Procs : needed_resources[p] = max_resources[p] /\ allocated_resources[p] = ZeroVec
  /\ available_resources # ZeroVec

\* C2: a request_resources or release_resources call that returns False
\* leaves available and every process's allocated and needed vectors as they
\* were before the call.
C2_AtomicRejection ==
  [][(call'.op \in {"request", "release"} /\ ret' = FALSE)
       => UNCHANGED <<available_resources, allocated_resources, needed_resources>>]_vars

\* a request within need and availability that was rejected as unsafe
C2_Witness ==
  /\ call.op = "request"
  /\ ret = FALSE
  /\ Known
  /\ call.vec # ZeroVec
  /\ AllLe(call.vec, needed_resources[call.pid])
  /\ AllLe(call.vec, available_resources)

\* C3: for a known pid, request_resources(pid, r) returns True exactly when
\* r <= needed[pid], r <= available and the ledger with r applied is safe;
\* on True the new ledger is exactly that one, other processes untouched.
C3_RequestGrant ==
  [][(call'.op = "request" /\ call'.pid \in Procs) =>
       LET p == call'.pid
           r == call'.vec
           grant == /\ AllLe(r, needed_resources[p])
                    /\ AllLe(r, available_resources)
                    /\ IsSafe(VSub(available_resources, r),
                              [allocated_resources EXCEPT ![p] = VAdd(@, r)],
                              [needed_resources EXCEPT ![p] = VSub(@, r)])
       IN /\ (ret' = TRUE) <=> grant
          /\ (ret' = TRUE) => Applied(p, r)]_vars

C3_Witness ==
  /\ call.op = "request"
  /\ Known
  /\ ret = TRUE
  /\ call.vec # ZeroVec
  /\ allocated_resources[call.pid] # ZeroVec

\* C4: for a known pid, release_resources(pid, r) returns True exactly when
\* r <= allocated[pid]; on True r moves from allocated[pid] to available and
\* is added to needed[pid], whether or not the result is safe, other
\* processes untouched.
C4_ReleaseGrant ==
  [][(call'.op = "release" /\ call'.pid \in Procs) =>
       LET p == call'.pid
           r == call'.vec
       IN /\ (ret' = TRUE) <=> AllLe(r, allocated_resources[p])
          /\ (ret' = TRUE) => Applied(p, [i \in Res |-> 0 - r[i]])]_vars

\* a granted release that ends in a ledger is_safe() rejects
C4_Witness ==
  /\ call.op = "release"
  /\ Known
  /\ ret = TRUE
  /\ call.vec # ZeroVec
  /\ ~IsSafe(available_resources, allocated_resources, needed_resources)

\* C5: a ledger that is safe at construction is safe after every sequence
\* of request_resources and release_resources calls.
C5_StaysSafe ==
  safe0 => IsSafe(available_resources, allocated_resources, needed_resources)

C5_Witness ==
  /\ safe0
  /\ call.op = "release"
  /\ Known
  /\ ret = TRUE
  /\ call.vec # ZeroVec
  /\ needed_resources[call.pid] # ZeroVec

\* An ordering of all processes in which each one's need is covered by
\* available plus the allocations of the processes before it.
Orderings == {f \in [Procs -> Procs] : \A a, b \in Procs : a # b => f[a] # f[b]}
RECURSIVE WorkBefore(_, _, _, _)
WorkBefore(av, al, f, k) ==
  IF k = 1 THEN av ELSE VAdd(WorkBefore(av, al, f, k - 1), al[f[k - 1]])
ExistsSafeOrder(av, al, nd) ==
  \E f \in Orderings : \A k \in Procs : AllLe(nd[f[k]], WorkBefore(av, al, f, k))

\* C6: is_safe() is True if and only if such an ordering exists.
C6_SafeIffOrdering ==
  IsSafe(available_resources, allocated_resources, needed_resources)
    <=> ExistsSafeOrder(available_resources, allocated_resources, needed_resources)

\* safe, but only by finishing a later process of the list first
C6_Witness ==
  /\ IsSafe(available_resources, allocated_resources, needed_resources)
  /\ ~AllLe(needed_resources[1], available_resources)
  /\ allocated_resources[NumProcs] # ZeroVec

Detected == DetectDeadlock(available_resources, allocated_resources, needed_resources)

\* C7: whenever detect_deadlock() reports a non-empty deadlock set, is_safe()
\* is False for the same ledger.
C7_CycleImpliesUnsafe ==
  Detected # <<>>
    => ~IsSafe(available_resources, allocated_resources, needed_resources)

\* The graph of the ledger: resource i -> process p when allocated[p][i] > 0,
\* process p -> resource i when needed[p][i] > 0 and available[i] < needed[p][i].
GraphSucc(n) ==
  IF n[1] = "R"
  THEN {PNode(p) : p \in {q \in Procs : allocated_resources[q][n[2]] > 0}}
  ELSE {RNode(i) : i \in {j \in Res : /\ needed_resources[n[2]][j] > 0
                                     /\ available_resources[j] < needed_resources[n[2]][j]}}
RECURSIVE ReachFrom(_)
ReachFrom(S) ==
  LET T == S \cup UNION {GraphSucc(n) : n \in S}
  IN IF T = S THEN S ELSE ReachFrom(T)
OnCycle(n) == n \in ReachFrom(GraphSucc(n))
HasCycle == \E n \in Nodes : OnCycle(n)

\* C8: detect_deadlock() returns a non-empty list exactly when that graph has
\* a cycle; every process it returns lies on a cycle, so it holds a resource
\* and has a need that availability cannot cover; the processes come in
\* list order without repetition.
C8_DetectIffCycle ==
  /\ (Detected # <<>>) <=> HasCycle
  /\ \A k \in 1..Len(Detected) :
       LET p == Detected[k]
       IN /\ OnCycle(PNode(p))
          /\ \E i \in Res : allocated_resources[p][i] > 0
          /\ \E i \in Res : /\ needed_resources[p][i] > 0
                            /\ available_resources[i] < needed_resources[p][i]
          /\ \A j \in 1..(k - 1) : Detected[j] < p

\* detect_deadlock() was called and returned a cycle through two processes
C8_Witness ==
  /\ call.op = "detect"
  /\ Len(ret) = 2
  /\ ret = Detected

DetectedNext ==
  DetectDeadlock(available_resources', allocated_resources', needed_resources')

\* C9: from a ledger on which detect_deadlock() is non-empty,
\* resolve_deadlock_by_termination() ends with detect_deadlock() empty and
\* has terminated at most as many processes as the deadlock set held.
C9_TerminationConverges ==
  [][(call'.op = "termination" /\ Detected # <<>>)
       => /\ DetectedNext = <<>>
          /\ Len(ret') <= Len(Detected)]_vars

\* C10: from a ledger on which detect_deadlock() is non-empty,
\* resolve_deadlock_by_preemption() ends with detect_deadlock() empty and
\* has preempted at most as many processes as the deadlock set held.
C10_PreemptionConverges ==
  [][(call'.op = "preemption" /\ Detected # <<>>)
       => /\ DetectedNext = <<>>
          /\ Len(ret') <= Len(Detected)]_vars

\* the ledger is the circular wait of the first N processes
IsRing(N) ==
  /\ available_resources = ZeroVec
  /\ \E h \in 1..MaxAlloc, n \in 1..MaxNeed :
       /\ allocated_resources = RingAlloc(N, h)
       /\ needed_resources = RingNeed(N, n)

\* C11: on a circular wait of N >= 2 processes with nothing available,
\* detect_deadlock() returns exactly the processes of the ring, and
\* resolve_deadlock_by_termination() terminates at least one process and
\* leaves a ledger on which detect_deadlock() returns the empty list.
C11_RingResolved ==
  [][\A N \in RingSizes :
       IsRing(N)
         => /\ Detected = [k \in 1..N |-> k]
            /\ (call'.op = "termination")
                 => /\ Len(ret') >= 1
                    /\ DetectedNext = <<>>]_vars

\* the ring after resolve_deadlock_by_termination() terminated process 1
C11_Witness ==
  /\ call.op = "termination"
  /\ ret = <<1>>
  /\ Detected = <<>>
  /\ \E N \in RingSizes, h \in 1..MaxAlloc, n \in 1..MaxNeed :
       /\ allocated_resources = [RingAlloc(N, h) EXCEPT ![1] = ZeroVec]
       /\ available_resources = RingAlloc(N, h)[1]
       /\ \A p \in 2..NumProcs : needed_resources[p] = RingNeed(N, n)[p]

\* the list resolve_deadlock_by_termination() works on: the cached list, or
\* a fresh detection when the cache is empty
TermList == IF deadlock_processes = <<>> THEN Detected ELSE deadlock_processes
Held(p) == NpSum(allocated_resources[p])
\* the ledger after the first k processes of T were terminated
RECURSIVE TermState(_, _)
TermState(T, k) ==
  IF k = 0
  THEN [av |-> available_resources, al |-> allocated_resources, nd |-> needed_resources]
  ELSE LET S == TermState(T, k - 1)
       IN [av |-> VAdd(S.av, S.al[T[k]]),
           al |-> [S.al EXCEPT ![T[k]] = ZeroVec],
           nd |-> [S.nd EXCEPT ![T[k]] = max_resources[T[k]]]]

\* C12: resolve_deadlock_by_termination() terminates processes of the
\* deadlock list heaviest first (non-increasing total allocation held); each
\* termination adds the whole allocation to available, zeroes the allocation
\* and resets the need to max; detection still reports a deadlock before
\* every further termination, and reports none when the call stops before
\* the list is exhausted; the returned list is the terminated processes in
\* termination order.
C12_TerminationOrder ==
  [][(call'.op = "termination")
       => LET T == ret'
              F == TermState(T, Len(T))
          IN /\ TermList # <<>> => Len(T) >= 1
             /\ \A k \in 1..Len(T) : T[k] \in SeqRange(TermList)
             /\ \A j, k \in 1..Len(T) :
                  j < k => /\ T[j] # T[k]
                           /\ Held(T[j]) >= Held(T[k])
             /\ \A p \in SeqRange(TermList) \ SeqRange(T) :
                  \A k \in 1..Len(T) : Held(T[k]) >= Held(p)
             /\ available_resources' = F.av
             /\ allocated_resources' = F.al
             /\ needed_resources' = F.nd
             /\ \A k \in 1..(Len(T) - 1) :
                  LET S == TermState(T, k)
                  IN DetectDeadlock(S.av, S.al, S.nd) # <<>>
             /\ Len(T) < Len(TermList) => DetectedNext = <<>>]_vars

\* two terminations in one call: the first left a deadlock behind
C12_Witness ==
  /\ call.op = "termination"
  /\ ret = <<1, 2>>
  /\ allocated_resources[1] = ZeroVec
  /\ allocated_resources[2] = ZeroVec
  /\ needed_resources = max_resources

\* what the first k processes of the list D hold together
RECURSIVE HeldTogether(_, _)
HeldTogether(D, k) ==
  IF k = 0 THEN ZeroVec
  ELSE VAdd(HeldTogether(D, k - 1), allocated_resources[D[k]])

\* the two-process scenario: P1 holds R1 and needs R2, P2 holds R2 and needs
\* R1, nothing available
TwoProcessScenario ==
  /\ available_resources = ZeroVec
  /\ allocated_resources = RingAlloc(2, 1)
  /\ needed_resources = RingNeed(2, 1)

\* C13: resolve_deadlock_by_preemption() returns the entire allocation of
\* every process of the detected deadlock set to available, adds that amount
\* to the process's need and zeroes its allocation; processes outside the
\* set are untouched; on the two-process scenario the set is {P1, P2} and
\* the result is one unit available of R1 and of R2 with both allocations
\* zero.
C13_PreemptionStrips ==
  [][(call'.op = "preemption")
       => LET D == Detected
          IN /\ ret' = D
             /\ available_resources' = VAdd(available_resources, HeldTogether(D, Len(D)))
             /\ \A p \in Procs :
                  IF p \in SeqRange(D)
                  THEN /\ allocated_resources'[p] = ZeroVec
                       /\ needed_resources'[p] =
                            VAdd(needed_resources[p], allocated_resources[p])
                  ELSE /\ allocated_resources'[p] = allocated_resources[p]
                       /\ needed_resources'[p] = needed_resources[p]
             /\ TwoProcessScenario
                  => /\ D = <<1, 2>>
                     /\ available_resources' = [i \in Res |-> IF i <= 2 THEN 1 ELSE 0]
                     /\ allocated_resources'[1] = ZeroVec
                     /\ allocated_resources'[2] = ZeroVec]_vars

\* the two-process scenario after resolve_deadlock_by_preemption()
C13_Witness ==
  /\ call.op = "preemption"
  /\ ret = <<1, 2>>
  /\ available_resources = [i \in Res |-> IF i <= 2 THEN 1 ELSE 0]
  /\ allocated_resources = [p \in Procs |-> ZeroVec]
  /\ needed_resources = [p \in Procs |-> VAdd(RingAlloc(2, 1)[p], RingNeed(2, 1)[p])]

\* ------------------------------------------------------- DeadlockResolver
ResolverCalled(strategy) ==
  /\ call'.op = "resolve_deadlock"
  /\ call'.strategy = strategy
\* the position in system_state.processes of the process with this id
PosOf(id) == CHOOSE k \in Procs : system_state.processes[k].id = id
\* the victims of the returned steps, as positions
Victims(steps) == [k \in 1..Len(steps) |-> PosOf(steps[k].process)]
\* the list that remains when the first k victims are removed
RECURSIVE RemainingAfter(_, _, _)
RemainingAfter(list, victims, k) ==
  IF k = 0 THEN list
  ELSE RemoveFirst(RemainingAfter(list, victims, k - 1), victims[k])
\* the system state when the first k victims have lost their allocation
RECURSIVE StateAfter(_, _)
StateAfter(victims, k) ==
  IF k = 0 THEN system_state
  ELSE LET T == StateAfter(victims, k - 1)
           id == system_state.processes[victims[k]].id
       IN [T EXCEPT !.available_resources = VAdd(@, T.allocation_matrix[id]),
                    !.allocation_matrix[id] = ZeroVec]

\* C14: called with a list of deadlocked processes (they cannot all complete
\* from what is available), resource_preemption picks as each next victim
\* the remaining process with the smallest total allocation currently held,
\* preempts at least one, and preempts a further process only while the
\* remaining processes are still deadlocked.
C14_MinCostUntilCleared ==
  [][(/\ ResolverCalled("resource_preemption")
      /\ ~CheckDeadlockResolved(system_state, call'.deadlock_processes))
       => LET list == call'.deadlock_processes
              victims == Victims(ret'.steps)
          IN /\ \A k \in 1..Len(victims) :
                  LET rem == SeqRange(RemainingAfter(list, victims, k - 1))
                  IN /\ victims[k] \in rem
                     /\ \A q \in rem :
                          Cost(system_state, victims[k]) <= Cost(system_state, q)
             /\ Len(victims) >= 1
             /\ \A k \in 2..Len(victims) :
                  ~CheckDeadlockResolved(StateAfter(victims, k - 1),
                                         RemainingAfter(list, victims, k - 1))]_vars

\* what a process still has to get: its max less its allocation
OutstandingNeed(S, id) == VSub(S.max_matrix[id], S.allocation_matrix[id])

\* C15: resolve_deadlock('resource_preemption', set) marks no process
\* terminated, and every process of the set carries what was preempted from
\* it as outstanding need afterwards.
C15_PreemptionKeepsProcesses ==
  [][ResolverCalled("resource_preemption")
       => /\ \A k \in Procs :
               system_state'.processes[k].state = "terminated"
                 => system_state.processes[k].state = "terminated"
          /\ \A k \in SeqRange(call'.deadlock_processes) :
               LET id == system_state.processes[k].id
               IN OutstandingNeed(system_state', id) =
                    VAdd(OutstandingNeed(system_state, id),
                         system_state.allocation_matrix[id])]_vars

\* available plus all current allocations
SystemTotal(S) == Holdings(S.available_resources, S.allocation_matrix)

\* C16: banker_resolution reports success, with a safe sequence holding the
\* id of every process exactly once, when no process's max exceeds the
\* total resources in any resource type, and reports failure otherwise,
\* whichever ids the processes at the list positions carry.
C16_BankerSuccess ==
  [][ResolverCalled("banker")
       => IF \A k \in Procs :
               AllLe(system_state.max_matrix[system_state.processes[k].id],
                     SystemTotal(system_state))
          THEN /\ ret'.success
               /\ Len(ret'.safe_sequence) = NumProcs
               /\ \A k \in Procs :
                    \E j \in 1..NumProcs :
                      ret'.safe_sequence[j] = system_state.processes[k].id
          ELSE ~ret'.success]_vars

\* banker_resolution succeeded on processes whose ids are not their
\* positions and whose max rows differ
C16_Witness ==
  /\ call.op = "resolve_deadlock"
  /\ call.strategy = "banker"
  /\ ret.success
  /\ system_state.processes[1].id # 1
  /\ system_state.max_matrix[1] # system_state.max_matrix[2]
  /\ system_state.max_matrix[1] # ZeroVec

\* C17: after banker_resolution, on success or failure, every allocation
\* entry is zero and available is the previous available plus all previous
\* allocations.
C17_BankerConserves ==
  [][ResolverCalled("banker")
       => /\ \A id \in Procs : system_state'.allocation_matrix[id] = ZeroVec
          /\ system_state'.available_resources = SystemTotal(system_state)]_vars

\* banker_resolution failed and left allocations it collected in available
C17_Witness ==
  /\ call.op = "resolve_deadlock"
  /\ call.strategy = "banker"
  /\ ~ret.success
  /\ \E i \in Res : system_state.available_resources[i] > MaxAvail
  /\ \A id \in Procs : system_state.allocation_matrix[id] = ZeroVec

\* C18: an unrecognized name is an error raised before anything is touched:
\* resolve_deadlock with a strategy other than 'resource_preemption',
\* 'process_termination', 'banker' raises and leaves the system state
\* unchanged; run_scheduling_simulation with a name that is none of 'fcfs',
\* 'rr', 'bankers' (compared in lower case) raises, leaves the ledger
\* unchanged and produces no scheduler and no history.
C18_UnknownNameRejected ==
  [][/\ (/\ call'.op = "resolve_deadlock"
          /\ call'.strategy \notin {"resource_preemption", "process_termination", "banker"})
         => /\ ret' = "ValueError"
            /\ system_state' = system_state
     /\ (/\ call'.op = "run_scheduling_simulation"
          /\ Lower(call'.algorithm) \notin {"fcfs", "rr", "bankers"})
         => /\ ret' = "ValueError"
            /\ UNCHANGED <<available_resources, max_resources, allocated_resources,
                           needed_resources, sched>>]_vars

\* an unknown algorithm name was rejected after a simulation had run
C18_Witness ==
  /\ call.op = "run_scheduling_simulation"
  /\ call.algorithm = "sjf"
  /\ ret = "ValueError"
  /\ sched # NoScheduler
  /\ Len(sched.history) > 0

\* ------------------------------------------------------------- schedulers
\* C19: in every scheduler each call of step() advances time by exactly one
\* and appends exactly one history record, for the tick that was current,
\* naming the process that ran or none; also in ticks in which no process
\* runs.
C19_OneRecordPerStep ==
  [][(call'.op = "step")
       => /\ sched'.time = sched.time + 1
          /\ Len(sched'.history) = Len(sched.history) + 1
          /\ sched'.history[Len(sched'.history)].time = sched.time
          /\ sched'.history[Len(sched'.history)].running \in Procs \cup {NoProcess}]_vars

\* C20: run_simulation(max_steps) always leaves its loop; it returns in a
\* state where is_complete() holds or time has reached max_steps; it takes
\* no step once is_complete() holds; and is_complete() holds exactly when
\* every process of the scheduler is in the completed list.
C20_RunTerminates ==
  /\ (sched.pc = "run") ~> (sched.pc = "idle")
  /\ [][(call'.op = "return")
          => (IsComplete(sched') \/ sched'.time >= sched'.max_steps)]_vars
  /\ [][(sched.pc = "run" /\ call'.op = "step") => ~IsComplete(sched)]_vars
  /\ [](IsComplete(sched)
          <=> \A k \in 1..Len(sched.processes) :
                sched.processes[k] \in SeqRange(sched.completed_processes))

\* run_simulation returned because the step budget ran out
C20_Witness ==
  /\ call.op = "return"
  /\ ~IsComplete(sched)
  /\ sched.max_steps > 0
  /\ sched.time = sched.max_steps
  /\ ret = sched.history


\* C21: FCFS is non-preemptive and ordered.  Processes run in order of
\* arrival time, equal arrival times in input order; the k-th process of
\* that order runs in exactly the consecutive ticks from the sum of the
\* earlier bursts to that sum plus its own burst minus one, and the
\* completion order is that order.
ArrivesBefore(s, q, p) ==
  \/ s.arrival_time[q] < s.arrival_time[p]
  \/ s.arrival_time[q] = s.arrival_time[p] /\ q < p
RECURSIVE BurstSum(_, _)
BurstSum(s, S) ==
  IF S = {} THEN 0
  ELSE LET q == CHOOSE x \in S : TRUE IN s.burst_time[q] + BurstSum(s, S \ {q})
FirstTick(s, p) == BurstSum(s, {q \in SeqRange(s.processes) : ArrivesBefore(s, q, p)})
LastTick(s, p) == FirstTick(s, p) + s.burst_time[p] - 1
RanAt(s, p, t) ==
  \E k \in 1..Len(s.history) : s.history[k].time = t /\ s.history[k].running = p
C21_FCFSOrder ==
  sched.kind = "fcfs"
    => /\ \A k \in 1..Len(sched.history) :
            LET h == sched.history[k]
            IN /\ h.running \in SeqRange(sched.processes)
               /\ FirstTick(sched, h.running) <= h.time
               /\ h.time <= LastTick(sched, h.running)
       /\ \A p \in SeqRange(sched.processes) :
            \A t \in FirstTick(sched, p)..LastTick(sched, p) :
              t < sched.time => RanAt(sched, p, t)
       /\ \A k \in 1..Len(sched.completed_processes) :
            /\ sched.time > LastTick(sched, sched.completed_processes[k])
            /\ \A j \in 1..(k - 1) :
                 ArrivesBefore(sched, sched.completed_processes[j],
                               sched.completed_processes[k])
       /\ \A p \in SeqRange(sched.processes) :
            sched.time > LastTick(sched, p) => p \in SeqRange(sched.completed_processes)

\* the later input arrived first and both processes ran to completion
C21_Witness ==
  /\ sched.kind = "fcfs"
  /\ sched.arrival_time[1] > sched.arrival_time[NumProcs]
  /\ IsComplete(sched)
  /\ sched.completed_processes[1] = NumProcs
  /\ Len(sched.history) = BurstSum(sched, Procs)
  /\ sched.burst_time[NumProcs] > 1


\* C22: scheduling completion.  For FCFS and for Round-Robin with any
\* positive quantum and positive bursts, is_complete() holds exactly from
\* the moment the sum of the bursts in steps has been taken, no tick before
\* that is idle, and run_simulation with max_steps at least that sum returns
\* with is_complete() True.
TotalBurst(s) == BurstSum(s, SeqRange(s.processes))
C22_CompletesAtBurstSum ==
  /\ [](sched.kind \in {"fcfs", "rr"}
          => /\ IsComplete(sched) <=> sched.time >= TotalBurst(sched)
             /\ sched.time <= TotalBurst(sched) => Len(sched.history) = sched.time)
  /\ [][(/\ call'.op = "return"
         /\ sched.kind \in {"fcfs", "rr"}
         /\ sched.max_steps >= TotalBurst(sched))
          => IsComplete(sched')]_vars

\* a Round-Robin run with quantum 1 returned complete with no step to spare
C22_Witness ==
  /\ sched.kind = "rr"
  /\ sched.time_quantum = 1
  /\ call.op = "return"
  /\ IsComplete(sched)
  /\ sched.time = TotalBurst(sched)
  /\ sched.max_steps = sched.time
  /\ Len(ret) = sched.time


\* C23: Round-Robin rotation.  A process that starts a turn runs for
\* consecutive ticks until it completes or has run time_quantum ticks in
\* that turn; a completed process never runs again, an uncompleted one goes
\* behind every process then waiting and the head of the queue runs next;
\* the recorded quantum counter is always in 1..time_quantum.  Quantum 2
\* with bursts [5,3,7] gives P1,P1,P2,P2,P3,P3,P1,P1,P2,P3,P3,P1,P3,P3,P3.
Least(a, b) == IF a < b THEN a ELSE b
\* the run order the rotation rule prescribes for a queue of processes with
\* remaining bursts rem and quantum q
RECURSIVE RotationOrder(_, _, _)
RotationOrder(queue, rem, q) ==
  IF queue = <<>> THEN <<>>
  ELSE LET p == Head(queue)
           n == Least(rem[p], q)
       IN [k \in 1..n |-> p]
            \o RotationOrder(IF rem[p] > n THEN Append(Tail(queue), p) ELSE Tail(queue),
                             [rem EXCEPT ![p] = @ - n], q)
C23_RoundRobinRotation ==
  /\ RotationOrder(<<1, 2, 3>>, <<5, 3, 7>>, 2)
       = <<1, 1, 2, 2, 3, 3, 1, 1, 2, 3, 3, 1, 3, 3, 3>>
  /\ sched.kind = "rr"
       => LET order == RotationOrder(sched.processes, sched.burst_time,
                                     sched.time_quantum)
          IN /\ Len(sched.history) <= Len(order)
             /\ \A k \in 1..Len(sched.history) :
                  /\ sched.history[k].running = order[k]
                  /\ sched.history[k].time = k - 1
                  /\ sched.history[k].quantum \in 1..sched.time_quantum
                  /\ sched.history[k].quantum > 1
                       => sched.history[k - 1].running = sched.history[k].running
             /\ \A k \in 1..Len(sched.completed_processes) :
                  /\ sched.completed_processes[k] # sched.running_process
                  /\ sched.completed_processes[k] \notin SeqRange(sched.ready_queue)

\* with quantum 1 and two bursts above it the two processes alternated
C23_Witness ==
  /\ sched.kind = "rr"
  /\ sched.time_quantum = 1
  /\ Len(sched.history) = 4
  /\ [k \in 1..4 |-> sched.history[k].running] = <<1, 2, 1, 2>>
  /\ sched.completed_processes = <<1, 2>>


\* C24: Banker's-gated admission.  When no process is running, step() admits
\* a ready process if and only if some ready process has need <= available
\* and its admission leaves the remaining ready processes able to all finish
\* under the work/finish scan, work growing by each finished process's
\* allocation; it admits the first such process of the ready queue and idles
\* only when there is none.
\* one pass of the scan over the queue positions from i on
RECURSIVE ScanPass(_, _, _)
ScanPass(s, st, i) ==
  IF i > Len(s.ready_queue) THEN st
  ELSE LET q == s.ready_queue[i]
       IN IF q \notin st.finished /\ AllLe(s.needed_resources[q], st.work)
          THEN ScanPass(s, [work |-> VAdd(st.work, s.allocated_resources[q]),
                            finished |-> st.finished \cup {q}], i + 1)
          ELSE ScanPass(s, st, i + 1)
RECURSIVE ScanLoop(_, _)
ScanLoop(s, st) ==
  LET nx == ScanPass(s, st, 1)
  IN IF nx.finished = st.finished THEN st ELSE ScanLoop(s, nx)
\* process p may be admitted under the work/finish scan
Admissible(s, av, p) ==
  /\ AllLe(s.needed_resources[p], av)
  /\ ScanLoop(s, [work |-> VSub(av, s.needed_resources[p]), finished |-> {p}]).finished
       = SeqRange(s.ready_queue)
FirstAdmissible(s, av) ==
  LET K == {k \in 1..Len(s.ready_queue) : Admissible(s, av, s.ready_queue[k])}
  IN IF K = {} THEN NoProcess
     ELSE s.ready_queue[CHOOSE k \in K : \A j \in K : k <= j]
C24_GatedAdmission ==
  [][(/\ call'.op = "step"
      /\ sched.kind = "bankers"
      /\ sched.running_process = NoProcess)
       => LET p == FirstAdmissible(sched, available_resources)
          IN IF p = NoProcess
             THEN /\ sched'.history = sched.history
                  /\ sched'.ready_queue = sched.ready_queue
             ELSE /\ Len(sched'.history) = Len(sched.history) + 1
                  /\ sched'.history[Len(sched'.history)].running = p
                  /\ p \notin SeqRange(sched'.ready_queue)]_vars


\* C25: in the Banker's-gated scheduler available never goes negative and,
\* for every resource type, available plus the allocations of the
\* scheduler's not-yet-completed processes is the same after every step:
\* admission moves the admitted process's whole need from available to its
\* allocation (its need becomes zero) and completion returns everything the
\* process holds to available.
RECURSIVE HeldBy(_, _, _)
HeldBy(s, S, i) ==
  IF S = {} THEN 0
  ELSE LET q == CHOOSE x \in S : TRUE
       IN s.allocated_resources[q][i] + HeldBy(s, S \ {q}, i)
Uncompleted(s) == SeqRange(s.processes) \ SeqRange(s.completed_processes)
InSystem(s, av) == [i \in Res |-> av[i] + HeldBy(s, Uncompleted(s), i)]
C25_GatedConservation ==
  [][(call'.op = "step" /\ sched.kind = "bankers")
       => LET admitted ==
                IF sched.running_process = NoProcess
                   /\ Len(sched'.history) > Len(sched.history)
                THEN sched'.history[Len(sched'.history)].running ELSE NoProcess
              done == Uncompleted(sched) \ Uncompleted(sched')
              taken == IF admitted = NoProcess THEN ZeroVec
                       ELSE sched.needed_resources[admitted]
              given == [i \in Res |-> HeldBy(sched', done, i)]
          IN /\ \A i \in Res : available_resources'[i] >= 0
             /\ InSystem(sched', available_resources')
                  = InSystem(sched, available_resources)
             /\ available_resources'
                  = VAdd(VSub(available_resources, taken), given)
             /\ \A p \in SeqRange(sched.processes) :
                  IF p = admitted
                  THEN /\ sched'.needed_resources[p] = ZeroVec
                       /\ sched'.allocated_resources[p]
                            = VAdd(sched.allocated_resources[p],
                                   sched.needed_resources[p])
                  ELSE /\ sched'.needed_resources[p] = sched.needed_resources[p]
                       /\ sched'.allocated_resources[p] = sched.allocated_resources[p]]_vars

\* a process that held a unit and needed another was admitted, ran to
\* completion and handed both back
C25_Witness ==
  /\ sched.kind = "bankers"
  /\ call.op = "step"
  /\ \E p \in SeqRange(sched.completed_processes) :
       /\ sched.allocated_resources[p][1] = MaxAlloc + MaxNeed
       /\ sched.burst_time[p] > 1
       /\ available_resources[1] >= MaxAlloc + MaxNeed
  /\ Uncompleted(sched) # {}


\* C26: in every step of every scheduler, idle ticks included, the
\* waiting_time of each process that is in the ready queue during the tick
\* grows by exactly 1 and that of the running process and of completed
\* processes does not change; hence in FCFS and Round-Robin a process that
\* completes at the end of tick t has waiting_time + execution_time = t + 1.
RanInStep(s, t) ==
  IF Len(t.history) > Len(s.history) THEN t.history[Len(t.history)].running
  ELSE NoProcess
WaitedInStep(s, t, p) == p \in SeqRange(s.ready_queue) /\ p # RanInStep(s, t)
C26_WaitingTimes ==
  [][(call'.op = "step")
       => \A p \in SeqRange(sched.processes) :
            /\ sched'.waiting_time[p]
                 = sched.waiting_time[p]
                     + (IF WaitedInStep(sched, sched', p) THEN 1 ELSE 0)
            /\ (/\ sched.kind \in {"fcfs", "rr"}
                /\ p \in Uncompleted(sched) \ Uncompleted(sched'))
                 => sched'.waiting_time[p] + sched'.execution_time[p]
                      = sched.time + 1]_vars


\* C27: a scheduling simulation never changes the ledger it was started
\* from: after run_scheduling_simulation(manager, algorithm) with 'fcfs',
\* 'rr' or 'bankers' and any step budget, the manager's available vector
\* and every process's max, allocated and needed vectors are what they were
\* before the run, so available plus allocations is still the total.
C27_SimulationKeepsLedger ==
  [][(/\ call'.op = "run_scheduling_simulation"
      /\ call'.algorithm \in {"fcfs", "rr", "bankers"})
       => /\ UNCHANGED <<available_resources, max_resources,
                         allocated_resources, needed_resources>>
          /\ Holdings(available_resources', allocated_resources') = total]_vars


\* C28: the scheduling history is append-only and ordered: a step never
\* changes or removes a record written by an earlier step, with its
\* ready-queue, completed and available snapshots; the 'time' fields of
\* successive records are strictly increasing; and each record's completed
\* list extends the previous record's.
IsPrefix(a, b) == Len(a) <= Len(b) /\ SubSeq(b, 1, Len(a)) = a
C28_HistoryAppendOnly ==
  /\ [][IsPrefix(sched.history, sched'.history)]_vars
  /\ [](\A k \in 1..(Len(sched.history) - 1) :
          /\ sched.history[k].time < sched.history[k + 1].time
          /\ IsPrefix(sched.history[k].completed, sched.history[k + 1].completed))

\* three records of a Banker's-gated run whose snapshots differ from one
\* another and from the scheduler's present state
C28_Witness ==
  /\ sched.kind = "bankers"
  /\ Len(sched.history) >= 3
  /\ sched.history[1].available # sched.history[3].available
  /\ sched.history[1].available # available_resources
  /\ sched.history[3].completed # <<>>
  /\ sched.history[3].completed # sched.completed_processes
  /\ sched.history[1].ready_queue # sched.ready_queue


\* C30: for every process and resource type i, allocated[i] <= max[i] in
\* every state reachable by request_resources, release_resources and the
\* resolution operations from a ledger handed to the engine, the ledgers of
\* create_deadlock_scenario included.
C30_AllocatedWithinMax ==
  \A p \in Procs : AllLe(allocated_resources[p], max_resources[p])


\* C29: every predefined scenario is a deadlock: for each scenario_id from 1
\* to 9, detect_deadlock() on the manager that
\* create_deadlock_scenario(scenario_id) returns reports a non-empty
\* deadlock set.
C29_ScenariosDetected ==
  [][(/\ call.op = "load_scenario"
      /\ call.scenario_id \in 1..LastScenario
      /\ call'.op = "detect_deadlock")
       => ret' # <<>>]_vars



\* C31: no entry of any resource vector ever goes negative: in every state
\* reachable by request_resources, release_resources and the resolution
\* operations, every entry of available and of each process's allocated and
\* needed vectors is >= 0, for every request or release vector the
\* operations accept.
C31_NonNegative ==
  /\ \A i \in Res : available_resources[i] >= 0
  /\ \A p \in Procs, i \in Res :
       allocated_resources[p][i] >= 0 /\ needed_resources[p][i] >= 0



\* C32: resolve_deadlock_by_termination() terminates a process only if it is
\* in a deadlock cycle of the ledger at the moment of the call; when
\* detect_deadlock() on the current state is empty it terminates no process
\* and changes nothing, even if an earlier detection (before intervening
\* releases or preemptions) had reported a deadlock.
C32_TerminationUsesCurrentState ==
  [][call'.op = "termination"
       => LET now == DetectDeadlock(available_resources, allocated_resources,
                                    needed_resources)
          IN /\ \A k \in 1..Len(ret') : \E j \in 1..Len(now) : ret'[k] = now[j]
             /\ now = <<>>
                  => /\ ret' = <<>>
                     /\ UNCHANGED <<available_resources, allocated_resources,
                                    needed_resources>>]_vars



\* C33: resolve_deadlock_by_resource_preemption visits the deadlocked
\* processes (the cached deadlock list, or the detected one when the cache is
\* empty) in ascending priority value, takes from each visited process at
\* most one unit of each resource type it holds, moving it to available and
\* adding it to the need, re-runs detection after each process and visits no
\* further process once detection reports no deadlock.
DeadlockList == IF deadlock_processes = <<>> THEN Detected ELSE deadlock_processes
\* what the first k visits took from process p, and took in all
TakenFrom(visits, k, p) ==
  IF \E j \in 1..k : visits[j][1] = p
  THEN visits[CHOOSE j \in 1..k : visits[j][1] = p][2]
  ELSE ZeroVec
RECURSIVE TakenSum(_, _)
TakenSum(visits, k) ==
  IF k = 0 THEN ZeroVec ELSE VAdd(TakenSum(visits, k - 1), visits[k][2])
\* the ledger after the first k visits
AfterVisits(visits, k) ==
  [av |-> VAdd(available_resources, TakenSum(visits, k)),
   al |-> [p \in Procs |-> VSub(allocated_resources[p], TakenFrom(visits, k, p))],
   nd |-> [p \in Procs |-> VAdd(needed_resources[p], TakenFrom(visits, k, p))]]
RECURSIVE RowsOf(_, _, _)
RowsOf(S, list, n) ==
  IF n = 0 THEN ZeroVec
  ELSE VAdd(RowsOf(S, list, n - 1), S.allocation_matrix[S.processes[list[n]].id])
\* the processes of the list can finish one after the other in this order
FinishInOrder(S, order) ==
  \A k \in 1..Len(order) :
    AllLe(S.request_matrix[S.processes[order[k]].id],
          VAdd(S.available_resources, RowsOf(S, order, k - 1)))
CanAllFinish(S, set) ==
  \E order \in ListsOver(set) : Len(order) = Cardinality(set) /\ FinishInOrder(S, order)
C34_ProcessTermination ==
  [][(call'.op = "resolve_deadlock" /\ call'.strategy = "process_termination")
       => LET list == call'.deadlock_processes
              prio == [k \in DOMAIN system_state.processes |->
                         system_state.processes[k].priority]
              sorted == SortedAsc(list, prio)
              steps == ret'.steps
              n == Len(steps)
              T == system_state'
          IN /\ list # <<>> => n >= 1
             /\ n <= Len(list)
             /\ \A k \in 1..n :
                  LET id == system_state.processes[sorted[k]].id
                  IN /\ steps[k].process = id
                     /\ T.processes[sorted[k]].state = "terminated"
                     /\ T.allocation_matrix[id] = ZeroVec
             /\ \A j, k \in 1..Len(list) :
                  (j <= n /\ j < k) => prio[sorted[j]] <= prio[sorted[k]]
             /\ SeqRange(sorted) = SeqRange(list)
             /\ T.available_resources
                  = VAdd(system_state.available_resources, RowsOf(system_state, sorted, n))
             /\ \A k \in (n + 1)..Len(list) :
                  LET id == system_state.processes[sorted[k]].id
                  IN T.allocation_matrix[id] = system_state.allocation_matrix[id]
             /\ T.request_matrix = system_state.request_matrix
             /\ CanAllFinish(T, {sorted[k] : k \in (n + 1)..Len(list)})]_vars

\* the set was given highest priority value first; the process of lowest
\* value was terminated, which let the other one finish
C34_Witness ==
  /\ call.op = "resolve_deadlock"
  /\ call.strategy = "process_termination"
  /\ call.deadlock_processes = <<2, 1>>
  /\ Len(ret.steps) = 1
  /\ ret.steps[1].process = system_state.processes[1].id
  /\ ret.steps[1].released_resources # ZeroVec
  /\ system_state.processes[2].state = "ready"
  /\ system_state.request_matrix[system_state.processes[2].id] # ZeroVec



\* C35: request_resources, release_resources, resolve_deadlock_by_preemption
\* and resolve_deadlock_by_resource_preemption leave allocated[i] + needed[i]
\* of every process unchanged for every resource type, whether the call
\* succeeds or fails; only termination (need reset to max) can change that
\* sum.
Claimed(al, nd) == [p \in Procs |-> VAdd(al[p], nd[p])]
C35_ClaimPreserved ==
  [][call'.op \in {"request", "release", "preemption", "resource_preemption"}
       => Claimed(allocated_resources', needed_resources')
            = Claimed(allocated_resources, needed_resources)]_vars

\* a resource preemption that moved units from a process's allocation to its
\* need, on a ledger whose allocation plus need is not max
C35_Witness ==
  /\ call.op = "resource_preemption"
  /\ ret # <<>>
  /\ \E p \in Procs : /\ needed_resources[p] # ZeroVec
                      /\ Claimed(allocated_resources, needed_resources)[p]
                           # max_resources[p]



\* C36: round trip: whenever request_resources(pid, r) returns True, an
\* immediately following release_resources(pid, r) returns True and restores
\* available and every process's allocated and needed vectors to exactly
\* their values before the request.
C36_RequestReleaseRoundTrip ==
  \A pid \in Pids, r \in Vec(0, MaxReq) :
    LET granted == RequestResources(Ledger, pid, r)
        back == ReleaseResources(granted.L, pid, r)
    IN granted.ret
         => /\ back.ret
            /\ back.L.av = available_resources
            /\ back.L.al = allocated_resources
            /\ back.L.nd = needed_resources

\* a request for a non-zero vector was just granted to a process that
\* already held something, and the release of the same vector is accepted
C36_Witness ==
  /\ call.op = "request"
  /\ ret = TRUE
  /\ call.vec # ZeroVec
  /\ allocated_resources[call.pid] # call.vec
  /\ ReleaseResources(Ledger, call.pid, call.vec).ret



\* C37: in every scheduler, after every step each process of the scheduler
\* is in exactly one of the ready queue, the running slot and the completed
\* list; no process appears twice in the ready queue or in the completed
\* list; at most one process is running; and a completed process never runs
\* again.
Occurrences(seq, p) == Cardinality({k \in 1..Len(seq) : seq[k] = p})
Places(s, p) ==
  Occurrences(s.ready_queue, p) + Occurrences(s.completed_processes, p)
    + (IF s.running_process = p THEN 1 ELSE 0)
C37_OnePlacePerProcess ==
  /\ [](sched.kind \in {"fcfs", "rr", "bankers"}
          => /\ \A p \in SeqRange(sched.processes) : Places(sched, p) = 1
             /\ SeqRange(sched.ready_queue) \subseteq SeqRange(sched.processes)
             /\ SeqRange(sched.completed_processes) \subseteq SeqRange(sched.processes)
             /\ sched.running_process \in SeqRange(sched.processes) \cup {NoProcess})
  /\ [][(call'.op = "step")
          => \A p \in SeqRange(sched.completed_processes) :
               /\ p \in SeqRange(sched'.completed_processes)
               /\ RanInStep(sched, sched') # p
               /\ sched'.running_process # p]_vars

\* one process is in the completed list and another, which has run and was
\* rotated out, is back in the ready queue
C37_Witness ==
  /\ sched.kind = "rr"
  /\ call.op = "step"
  /\ sched.completed_processes # <<>>
  /\ sched.ready_queue # <<>>
  /\ sched.execution_time[sched.ready_queue[1]] > 0
  /\ sched.running_process = NoProcess



\* C38: idling is absorbing in the Banker's-gated scheduler: if a step finds
\* no running process and admits none of the waiting processes, then every
\* later step also admits none (no state other than time changes), so
\* is_complete() never becomes True and run_simulation ends only because
\* time reaches max_steps.
\* the scheduler has processes waiting, runs none and can admit none
Idling ==
  /\ sched.kind = "bankers"
  /\ sched.running_process = NoProcess
  /\ sched.ready_queue # <<>>
  /\ \A k \in 1..Len(sched.ready_queue) :
       LET p == sched.ready_queue[k]
       IN ~(/\ AllLe(sched.needed_resources[p], available_resources)
            /\ BankersIsSafe(sched, available_resources, p))
C38_IdlingIsAbsorbing ==
  /\ [][(/\ call'.op = "step"
         /\ sched.kind = "bankers"
         /\ sched.running_process = NoProcess
         /\ sched.ready_queue # <<>>
         /\ RanInStep(sched, sched') = NoProcess)
          => Idling /\ Idling']_vars
  /\ [][Idling => /\ Idling'
                  /\ ~IsComplete(sched')
                  /\ UNCHANGED available_resources
                  /\ call'.op = "step"
                       => sched' = [sched EXCEPT !.time = @ + 1]
                  /\ call'.op = "return"
                       => sched.time >= sched.max_steps]_vars

\* run_simulation returned from an idling scheduler after several ticks in
\* which nothing ran, with the step budget used up
C38_Witness ==
  /\ Idling
  /\ call.op = "return"
  /\ sched.history = <<>>
  /\ sched.time >= 2
  /\ sched.time = sched.max_steps
  /\ ~IsComplete(sched)



\* C39: every process counted by is_complete() is eventually scheduled: a
\* process added with add_process() after an FCFS or Round-Robin scheduler
\* was constructed is eventually run and completed by run_simulation (given
\* positive bursts and a sufficient step budget), so is_complete()
\* eventually becomes True.
RECURSIVE RemainingSum(_, _)
RemainingSum(s, S) ==
  IF S = {} THEN 0
  ELSE LET q == CHOOSE x \in S : TRUE
       IN s.remaining_time[q] + RemainingSum(s, S \ {q})
SufficientBudget ==
  /\ sched.pc = "run"
  /\ sched.max_steps - sched.time >= RemainingSum(sched, Uncompleted(sched))
C39_AddedProcessCompletes ==
  SufficientBudget ~> IsComplete(sched)



\* C40: for two threads each running thread_job on two MonitorLocks taken in
\* opposite orders, in every interleaving detect_deadlock() returns a cycle
\* whenever both threads are blocked each waiting for the lock the other
\* owns, and only in such a state; and a thread is recorded in waiting_info
\* for a lock only while its acquire call on that lock is in progress.
\* thread t is inside the acquire call on lock l
Acquiring(M, t, l) ==
  /\ M.pc[t] <= Len(Program)
  /\ Program[M.pc[t]].op \in {"lock", "own", "unregister"}
  /\ LockOf(t, Program[M.pc[t]].k) = l
C40_MonitorDetectsExactly ==
  /\ [][call'.op = "detect_return"
          => /\ system_state.detect.in_deadlock
                  => ret'.raised = "" /\ ret'.value # NoCycle
             /\ ret'.value # NoCycle
                  => /\ Deadlocked(system_state')
                     /\ Len(ret'.value) = NumThreads
                     /\ \A k \in 1..Len(ret'.value) :
                          /\ ret'.value[k][3] = "forward"
                          /\ ret'.value[k][1] \in Threads
                          /\ ret'.value[k][2] \in Threads \ {ret'.value[k][1]}]_vars
  /\ [](\A j \in 1..Len(system_state.waiting_info) :
          LET item == system_state.waiting_info[j]
          IN \A k \in 1..Len(item.locks) :
               Acquiring(system_state, item.thread, item.locks[k]))

====
